---- MODULE Spec2Model ----
(***************************************************************************)
(* Parkinson's symptom monitor: the per-window band integration and the    *)
(* priority state machine of processSignal (src/src/main_last.cpp).        *)
(*                                                                         *)
(* Energies are the sums of spectrum magnitudes, modelled as naturals in   *)
(* the units of the code (the thresholds 15000 and 10000 are in the same   *)
(* units).  A window is represented by the magnitude spectrum the FFT left *)
(* in vReal[0..SAMPLES-1].                                                 *)
(***************************************************************************)
EXTENDS Integers, Sequences, FiniteSets, TLC

VARIABLES
  isFrozenState,     \* static bool isFrozenState  (FOG hysteresis lock)
  wasWalking,        \* static bool wasWalking     (walking context memory)
  tremorVal,         \* uint8_t tremorVal at sendBLE of the last window
  dyskinesiaVal,     \* uint8_t dyskinesiaVal at sendBLE of the last window
  fogVal,            \* uint8_t fogVal at sendBLE of the last window
  energyLocomotor,   \* band energies of the last window (the debug log line)
  energyTremor,
  energyDyskinesia,
  energyFreeze,
  status,            \* the ">>> ..." lines the last window printed, in order
  divisors,          \* denominators the last window divided energyFreeze by
  \* --- window assembly: which of the three acquisition programs runs
  variant,           \* "classifier" | "main_last" | "sensors" | "main"
  \* main_last.cpp, loop()
  sampleIndex,       \* int sampleIndex
  due,               \* now - lastSampleTime >= SAMPLE_PERIOD_US
  vReal,             \* vReal[0..SAMPLES-1] before processSignal (sample ids)
  lastRead,          \* outcome of the last requestFrom: "none", "ok", "short"
  \* sensors.cpp
  sample_flag,       \* static volatile bool sample_flag
  head,              \* static size_t head
  filled,            \* static bool filled
  buffer,            \* static float buffer[WINDOW_SAMPLES] (sample ids)
  last_window,       \* static SignalWindow last_window
  window,            \* the caller's SignalWindow
  ret,               \* last sensors_get_window result: "none", "true", "false"
  use_synthetic,     \* static bool use_synthetic
  lastSource,        \* where the sample of the last call came from: "none",
                     \* "imu", "failed_read" (a bus error), "synthetic"
  \* main.cpp
  index,             \* sensor_data.index
  accel,             \* sensor_data.accel_x/y/z[BUFFER_SIZE] (sample ids)
  button_pressed,    \* bool button_pressed
  pc,                \* position of main()'s while (true) body
  results,           \* DetectionResults results
  \* --- bookkeeping of the assembly, read by the properties only
  accepted,          \* samples stored since start; the k-th has id k
  emitCount,         \* windows handed to analysis since start
  lastEmitAt,        \* value of accepted when the last window was handed over
  prevEmitAt,        \* ... and when the one before it was
  lastWindow,        \* the sample ids of the last window handed over
  prevWindow,        \* ... and of the one before it
  \* --- step 1 of processSignal run on a window and on its shifted copy
  dcOffset,          \* the constant added to every sample of the copy
  vRealShifted,      \* vReal[0..SAMPLES-1] of the run on the copy
  dcStage,           \* "raw" before step 1, "removed" after it,
                     \* "magnitudes" after step 2, "integrated" after step 3,
                     \* "classified" after the verdict
  \* --- test_algo.cpp
  res,               \* DetectionResult res of run_algorithm
  \* --- gait.cpp, dsp.cpp and analyze_frequency_band of main.cpp, each
  \* run on the SignalWindow window
  gait_status,       \* GaitStatus returned by the last gait_update
  movement,          \* MovementAnalysis returned by dsp_analyze_window
  band_percent,      \* value returned by the last analyze_frequency_band
  powers,            \* the band powers / energies the last routine summed
  denominators,      \* every value the last routine divided by
  called,            \* the routine that ran last
  \* --- main_best.cpp
  best,              \* what processSignal of main_best.cpp makes of the
                     \* window and the statics main_last.cpp started from
  \* --- sensors.cpp, sensors_get_window statement by statement
  ticks,             \* runs of sample_isr
  call,              \* where the polling loop stands in sensors_get_window
  pushed             \* samples the current (or last) call has pushed

classifierVars ==
  <<isFrozenState, wasWalking, tremorVal, dyskinesiaVal, fogVal,
    energyLocomotor, energyTremor, energyDyskinesia, energyFreeze,
    status, divisors>>

loopVars == <<sampleIndex, due, vReal, lastRead>>

sensorsVars ==
  <<sample_flag, head, filled, buffer, last_window, window, ret,
    use_synthetic, lastSource>>

mainVars == <<index, accel, button_pressed, pc, results>>

bookVars ==
  <<accepted, emitCount, lastEmitAt, prevEmitAt, lastWindow, prevWindow>>

dcVars == <<dcOffset, vRealShifted, dcStage>>

testVars == <<res>>

analysisVars ==
  <<gait_status, movement, band_percent, powers, denominators, called>>

bestVars == <<best>>

isrVars == <<ticks, call, pushed>>

vars ==
  <<classifierVars, variant, loopVars, sensorsVars, mainVars, bookVars,
    dcVars, testVars, analysisVars, bestVars, isrVars>>

(***************************************************************************)
(* Program constants                                                       *)
(***************************************************************************)
SAMPLES == 256
ACTION_THRESHOLD == 15000
WALK_THRESHOLD == 10000
\* double freq = i * 0.203, kept in mHz
BIN_WIDTH_MHZ == 203
\* energy / 1000.0
INTENSITY_DIVISOR == 1000
\* min(..., 100.0)
INTENSITY_MAX == 100
\* #define SAMPLING_FREQ 52 (main_last.cpp)
SAMPLING_FREQ == 52
\* #define NOISE_THRESHOLD 10000.0 (test_algo.cpp)
NOISE_THRESHOLD == 10000
\* #define WALKING_THRESHOLD 5000.0 (test_algo.cpp)
WALKING_THRESHOLD == 5000
\* #define FOG_INDEX_THRESHOLD 2.0 (test_algo.cpp)
FOG_INDEX_THRESHOLD == 2
\* const float STEP_THR = 0.15f (gait.cpp), in thousandths of g
STEP_THR == 150
\* const float RMS_WALK_MIN = 0.05f (gait.cpp), in thousandths of g
RMS_WALK_MIN == 50
\* const float WALK_MIN_SPM = 30.0f (gait.cpp)
WALK_MIN_SPM == 30
\* const float WALK_MAX_SPM = 120.0f (gait.cpp)
WALK_MAX_SPM == 120
\* const float ARTIFACT_SPM_THR = 140.0f (gait.cpp)
ARTIFACT_SPM_THR == 140
\* if (rms < 0.06f) (gait.cpp), in thousandths of g
FOG_RMS_MAX == 60
\* constexpr float WINDOW_SEC = 3.0f (config.h)
WINDOW_SEC == 3
\* constexpr float MIN_TOTAL_POWER = 1e-3f (config.h), in units of 1e-4
MIN_TOTAL_POWER == 10
\* #define REAL_SAMPLES 156 (main_last.cpp)
REAL_SAMPLES == 156
\* constexpr size_t WINDOW_SAMPLES = FS_HZ * WINDOW_SEC (config.h)
WINDOW_SAMPLES == 156
\* #define BUFFER_SIZE 156 (parkinsons_system.h)
BUFFER_SIZE == 156

(***************************************************************************)
(* Bounds of the model: the magnitudes a spectrum peak may take.           *)
(***************************************************************************)
AmpStep == 5000
MaxAmp == 4
MaxHigh == 2
BigAmp == 200000
LeakAmp == 40000
\* samples an acquisition program accepts before the model stops it
MaxSamples == 320
\* sample values, slopes and offsets of the windows fed to the DC removal
MaxLevel == 3
\* height of the spectral peak fed to the band integration
MaxPeak == 3
\* threshold crossings in the windows fed to gait_update
MaxSteps == 9
\* the largest band power fed to dsp_analyze_window, in units of 1e-4
MaxPower == 40
\* ticker interrupts not yet answered by a pushed sample
MaxPending == 2
MaxSlope == 2
MaxOffset == 2

Amps == {k * AmpStep : k \in 0..MaxAmp} \cup {BigAmp}
HighAmps == {k * AmpStep : k \in 0..MaxHigh}

Min(a, b) == IF a <= b THEN a ELSE b

\* (uint8_t) of a non-negative integral value
ToUint8(x) == x % 256

(***************************************************************************)
(* Step 3 of processSignal: energy integration per frequency band.         *)
(***************************************************************************)
\* the band test with the bin width of a 208-point transform, 0.25 Hz
InBand_Width250(i, lo, hi) == i * 250 >= lo /\ i * 250 <= hi

\* the band test with a bin width rounded to 0.2 Hz
InBand_Width200(i, lo, hi) == i * 200 >= lo /\ i * 200 <= hi

\* freq >= lo && freq <= hi, with freq = i * 0.203 (all in mHz)
InBand(i, lo, hi) == i * BIN_WIDTH_MHZ >= lo /\ i * BIN_WIDTH_MHZ <= hi

\* for (int i = 2; i < SAMPLES/2; i++) if (in band) energy += vReal[i];
\* the sum over the bins a..b-1, split in halves to keep the evaluation shallow
RECURSIVE SumBand(_, _, _, _, _)
SumBand(v, a, b, lo, hi) ==
  IF a >= b THEN 0
  ELSE IF b = a + 1 THEN (IF InBand(a, lo, hi) THEN v[a] ELSE 0)
  ELSE LET m == (a + b) \div 2
       IN SumBand(v, a, m, lo, hi) + SumBand(v, m, b, lo, hi)

\* the freeze band ending where the dyskinesia band starts
BandEnergies_FreezeBelowDysk(v) ==
  [loc    |-> SumBand(v, 2, SAMPLES \div 2, 500, 3000),
   tremor |-> SumBand(v, 2, SAMPLES \div 2, 3000, 5000),
   dysk   |-> SumBand(v, 2, SAMPLES \div 2, 5000, 7000),
   freeze |-> SumBand(v, 2, SAMPLES \div 2, 3000, 5000)]

\* the four band sums of step 3
BandEnergies(v) ==
  [loc    |-> SumBand(v, 2, SAMPLES \div 2, 500, 3000),
   tremor |-> SumBand(v, 2, SAMPLES \div 2, 3000, 5000),
   dysk   |-> SumBand(v, 2, SAMPLES \div 2, 5000, 7000),
   freeze |-> SumBand(v, 2, SAMPLES \div 2, 3000, 8000)]

(***************************************************************************)
(* The classifier's guards                                                 *)
(***************************************************************************)
\* energyFreeze / energyLocomotor > 1.5 in IEEE double arithmetic: x/0 is
\* +inf for x > 0 and NaN (every comparison false) for x = 0.
RatioExceeds(num, den) ==
  IF den = 0 THEN num > 0 ELSE 2 * num > 3 * den

IsNowTremor(e) ==
  /\ e.tremor > ACTION_THRESHOLD
  /\ e.tremor > e.dysk
  /\ e.tremor > e.loc

TremorRule_NoDyskCheck(e) ==
  /\ e.tremor > ACTION_THRESHOLD
  /\ e.tremor > e.loc

TremorRule(e) ==
  /\ e.tremor > ACTION_THRESHOLD
  /\ e.tremor > e.loc
  /\ e.tremor > e.dysk

DyskinesiaRule(e) ==
  /\ e.dysk > ACTION_THRESHOLD
  /\ e.dysk > e.tremor

\* Scenario A: (energyLocomotor > WALK_THRESHOLD && (energyFreeze /
\* energyLocomotor > 1.5)).  The && short-circuits: the quotient is formed
\* only when the left operand is true.  holds is the value of the
\* condition, divisors the denominators the evaluation divided by.
MixedModeEval_Unguarded(e) ==
  [holds |-> RatioExceeds(e.freeze, e.loc), divisors |-> {e.loc}]

\* scenario A for any locomotor energy above zero
MixedModeEval_AnyMotion(e) ==
  IF e.loc > 0
  THEN [holds |-> RatioExceeds(e.freeze, e.loc), divisors |-> {e.loc}]
  ELSE [holds |-> FALSE, divisors |-> {}]

MixedModeEval(e) ==
  IF e.loc > WALK_THRESHOLD
  THEN [holds |-> RatioExceeds(e.freeze, e.loc), divisors |-> {e.loc}]
  ELSE [holds |-> FALSE, divisors |-> {}]

MixedMode(e) == MixedModeEval(e).holds

MixedModeDivisors(e) == MixedModeEval(e).divisors

\* scenario B taken whatever the previous window was
ContextMode_NoMemory(e, ww) ==
  e.freeze > ACTION_THRESHOLD /\ e.freeze > e.loc

\* Scenario B
ContextMode(e, ww) ==
  ww /\ e.freeze > ACTION_THRESHOLD /\ e.freeze > e.loc

FogTrigger_MixedOnly(e, ww) == MixedMode(e)

\* scenario B without the walking memory
FogTrigger_NoMemory(e, ww) ==
  MixedMode(e) \/ (e.freeze > ACTION_THRESHOLD /\ e.freeze > e.loc)

FogTrigger(e, ww) == MixedMode(e) \/ ContextMode(e, ww)

WalkingRule(e) == e.loc > WALK_THRESHOLD

Intensity_NoClamp(energy) == ToUint8(energy \div INTENSITY_DIVISOR)

\* the energy divided by 10000
Intensity_Divisor10000(energy) ==
  ToUint8(Min(energy \div (10 * INTENSITY_DIVISOR), INTENSITY_MAX))

\* (uint8_t)min(energy / 1000.0, 100.0)
Intensity(energy) ==
  ToUint8(Min(energy \div INTENSITY_DIVISOR, INTENSITY_MAX))

(***************************************************************************)
(* The state machine: the value of the statics and of the three result     *)
(* bytes at the label sendBLE.                                             *)
(***************************************************************************)
Outcome(f, ww, t, d, g, msgs, divs) ==
  [frozen |-> f, walking |-> ww, tremorVal |-> t, dyskinesiaVal |-> d,
   fogVal |-> g, status |-> msgs, divisors |-> divs]

\* the chain with plain ifs: a detected tremor or dyskinesia does not leave
\* the chain before the FOG trigger is looked at
PriorityChain_NoExit(e, f, ww, msgs) ==
  LET t == IF TremorRule(e) THEN Intensity(e.tremor) ELSE 0
      d == IF ~TremorRule(e) /\ DyskinesiaRule(e) THEN Intensity(e.dysk) ELSE 0
  IN IF FogTrigger(e, ww)
     THEN Outcome(TRUE, FALSE, t, d, 1,
                  Append(msgs, "EVENT: FOG (Started!)"), MixedModeDivisors(e))
     ELSE IF t > 0 \/ d > 0
     THEN Outcome(FALSE, FALSE, t, d, 0, Append(msgs, "EVENT"),
                  MixedModeDivisors(e))
     ELSE Outcome(f, WalkingRule(e), 0, 0, 0, Append(msgs, "Status"),
                  MixedModeDivisors(e))

\* the chain with the walking update ahead of the FOG trigger
PriorityChain_WalkFirst(e, f, ww, msgs) ==
  IF TremorRule(e)
  THEN Outcome(FALSE, FALSE, Intensity(e.tremor), 0, 0,
               Append(msgs, "EVENT: Tremor (Resting)"), {})
  ELSE IF DyskinesiaRule(e)
  THEN Outcome(FALSE, FALSE, 0, Intensity(e.dysk), 0,
               Append(msgs, "EVENT: Dyskinesia"), {})
  ELSE IF WalkingRule(e)
  THEN Outcome(f, TRUE, 0, 0, 0, Append(msgs, "Status: Walking..."), {})
  ELSE IF FogTrigger(e, ww)
  THEN Outcome(TRUE, FALSE, 0, 0, 1,
               Append(msgs, "EVENT: FOG (Started!)"), MixedModeDivisors(e))
  ELSE Outcome(f, FALSE, 0, 0, 0,
               Append(msgs, "Status: Idle (Still)"), MixedModeDivisors(e))

\* the chain whose FOG trigger reports FOG without engaging the lock
PriorityChain_NoLockEngage(e, f, ww, msgs) ==
  IF TremorRule(e)
  THEN Outcome(FALSE, FALSE, Intensity(e.tremor), 0, 0,
               Append(msgs, "EVENT: Tremor (Resting)"), {})
  ELSE IF DyskinesiaRule(e)
  THEN Outcome(FALSE, FALSE, 0, Intensity(e.dysk), 0,
               Append(msgs, "EVENT: Dyskinesia"), {})
  ELSE IF FogTrigger(e, ww)
  THEN Outcome(f, FALSE, 0, 0, 1,
               Append(msgs, "EVENT: FOG (Started!)"), MixedModeDivisors(e))
  ELSE IF WalkingRule(e)
  THEN Outcome(f, TRUE, 0, 0, 0,
               Append(msgs, "Status: Walking..."), MixedModeDivisors(e))
  ELSE Outcome(f, FALSE, 0, 0, 0,
               Append(msgs, "Status: Idle (Still)"), MixedModeDivisors(e))

\* the chain whose tremor and dyskinesia branches leave the walking context
PriorityChain_KeepWalking(e, f, ww, msgs) ==
  IF TremorRule(e)
  THEN Outcome(FALSE, ww, Intensity(e.tremor), 0, 0,
               Append(msgs, "EVENT: Tremor (Resting)"), {})
  ELSE IF DyskinesiaRule(e)
  THEN Outcome(FALSE, ww, 0, Intensity(e.dysk), 0,
               Append(msgs, "EVENT: Dyskinesia"), {})
  ELSE IF FogTrigger(e, ww)
  THEN Outcome(TRUE, FALSE, 0, 0, 1,
               Append(msgs, "EVENT: FOG (Started!)"), MixedModeDivisors(e))
  ELSE IF WalkingRule(e)
  THEN Outcome(f, TRUE, 0, 0, 0,
               Append(msgs, "Status: Walking..."), MixedModeDivisors(e))
  ELSE Outcome(f, FALSE, 0, 0, 0,
               Append(msgs, "Status: Idle (Still)"), MixedModeDivisors(e))

\* the chain whose final else does not reset the walking context
PriorityChain_IdleKeepsWalking(e, f, ww, msgs) ==
  IF TremorRule(e)
  THEN Outcome(FALSE, FALSE, Intensity(e.tremor), 0, 0,
               Append(msgs, "EVENT: Tremor (Resting)"), {})
  ELSE IF DyskinesiaRule(e)
  THEN Outcome(FALSE, FALSE, 0, Intensity(e.dysk), 0,
               Append(msgs, "EVENT: Dyskinesia"), {})
  ELSE IF FogTrigger(e, ww)
  THEN Outcome(TRUE, FALSE, 0, 0, 1,
               Append(msgs, "EVENT: FOG (Started!)"), MixedModeDivisors(e))
  ELSE IF WalkingRule(e)
  THEN Outcome(f, TRUE, 0, 0, 0,
               Append(msgs, "Status: Walking..."), MixedModeDivisors(e))
  ELSE Outcome(f, ww, 0, 0, 0,
               Append(msgs, "Status: Idle (Still)"), MixedModeDivisors(e))

\* Priorities 2..5 and the final else (an if / else-if chain whose first
\* three branches leave by goto sendBLE), entered with the statics f, ww and
\* the lines msgs already printed.  The || of priority 4 short-circuits too,
\* but its left operand is always evaluated once the chain gets there.
\* the FOG start leaving the walking memory as it was
PriorityChain_FogKeepsWalking(e, f, ww, msgs) ==
  IF TremorRule(e)
  THEN Outcome(FALSE, FALSE, Intensity(e.tremor), 0, 0,
               Append(msgs, "EVENT: Tremor (Resting)"), {})
  ELSE IF DyskinesiaRule(e)
  THEN Outcome(FALSE, FALSE, 0, Intensity(e.dysk), 0,
               Append(msgs, "EVENT: Dyskinesia"), {})
  ELSE IF FogTrigger(e, ww)
  THEN Outcome(TRUE, ww, 0, 0, 1,
               Append(msgs, "EVENT: FOG (Started!)"), MixedModeDivisors(e))
  ELSE IF WalkingRule(e)
  THEN Outcome(f, TRUE, 0, 0, 0,
               Append(msgs, "Status: Walking..."), MixedModeDivisors(e))
  ELSE Outcome(f, FALSE, 0, 0, 0,
               Append(msgs, "Status: Idle (Still)"), MixedModeDivisors(e))

PriorityChain(e, f, ww, msgs) ==
  IF TremorRule(e)
  THEN Outcome(FALSE, FALSE, Intensity(e.tremor), 0, 0,
               Append(msgs, "EVENT: Tremor (Resting)"), {})
  ELSE IF DyskinesiaRule(e)
  THEN Outcome(FALSE, FALSE, 0, Intensity(e.dysk), 0,
               Append(msgs, "EVENT: Dyskinesia"), {})
  ELSE IF FogTrigger(e, ww)
  THEN Outcome(TRUE, FALSE, 0, 0, 1,
               Append(msgs, "EVENT: FOG (Started!)"), MixedModeDivisors(e))
  ELSE IF WalkingRule(e)
  THEN Outcome(f, TRUE, 0, 0, 0,
               Append(msgs, "Status: Walking..."), MixedModeDivisors(e))
  ELSE Outcome(f, FALSE, 0, 0, 0,
               Append(msgs, "Status: Idle (Still)"), MixedModeDivisors(e))

\* the lock kept when the energy drops
Classify_NoRelease(e, f, ww) ==
  IF f /\ IsNowTremor(e)
  THEN Outcome(FALSE, FALSE, Intensity(e.tremor), 0, 0,
               <<"Status: FOG -> Tremor Transition.">>, {})
  ELSE IF f /\ e.freeze > ACTION_THRESHOLD
  THEN Outcome(f, FALSE, 0, 0, 1, <<"EVENT: FOG (Continuing...)">>, {})
  ELSE IF f
  THEN PriorityChain(e, f, ww, <<"Status: FOG Ended (Idle).">>)
  ELSE PriorityChain(e, f, ww, <<>>)

\* the maintenance test ahead of (and hiding) the release to tremor
Classify_MaintenanceFirst(e, f, ww) ==
  IF f /\ e.freeze > ACTION_THRESHOLD
  THEN Outcome(f, FALSE, 0, 0, 1, <<"EVENT: FOG (Continuing...)">>, {})
  ELSE IF f
  THEN PriorityChain(e, FALSE, ww, <<"Status: FOG Ended (Idle).">>)
  ELSE PriorityChain(e, f, ww, <<>>)

\* no hysteresis: every window starts at priority 2
Classify_NoLock(e, f, ww) == PriorityChain(e, FALSE, ww, <<>>)

\* the release to tremor leaving the lock engaged
Classify_ReleaseKeepsLock(e, f, ww) ==
  IF f /\ IsNowTremor(e)
  THEN Outcome(TRUE, FALSE, Intensity(e.tremor), 0, 0,
               <<"Status: FOG -> Tremor Transition.">>, {})
  ELSE IF f /\ e.freeze > ACTION_THRESHOLD
  THEN Outcome(f, FALSE, 0, 0, 1, <<"EVENT: FOG (Continuing...)">>, {})
  ELSE IF f
  THEN PriorityChain(e, FALSE, ww, <<"Status: FOG Ended (Idle).">>)
  ELSE PriorityChain(e, f, ww, <<>>)

\* Priority 1 (only if isFrozenState): release to tremor (goto sendBLE),
\* maintenance (goto sendBLE), or the lock is cleared and control falls
\* through into the chain.
Classify(e, f, ww) ==
  IF f /\ IsNowTremor(e)
  THEN Outcome(FALSE, FALSE, Intensity(e.tremor), 0, 0,
               <<"Status: FOG -> Tremor Transition.">>, {})
  ELSE IF f /\ e.freeze > ACTION_THRESHOLD
  THEN Outcome(f, FALSE, 0, 0, 1, <<"EVENT: FOG (Continuing...)">>, {})
  ELSE IF f
  THEN PriorityChain(e, FALSE, ww, <<"Status: FOG Ended (Idle).">>)
  ELSE PriorityChain(e, f, ww, <<>>)

(***************************************************************************)
(* The spectra the model feeds: one peak in each of the four regions of    *)
(* the band layout (at the lowest or at the highest bin of the region),    *)
(* and optionally leakage in the bins no band may count.                   *)
(***************************************************************************)
LowBins == [loc |-> 3, tremor |-> 15, dysk |-> 25, high |-> 35]
HighBins == [loc |-> 14, tremor |-> 24, dysk |-> 34, high |-> 39]

Spectrum(bins, aL, aT, aD, aX, aO) ==
  [i \in 0..(SAMPLES - 1) |->
     IF i = bins.loc THEN aL
     ELSE IF i = bins.tremor THEN aT
     ELSE IF i = bins.dysk THEN aD
     ELSE IF i = bins.high THEN aX
     ELSE IF i \in {0, 1, 2, 40, SAMPLES \div 2} THEN aO
     ELSE 0]

\* Scenario E (test_fog_event): generate_signal(2.0, 100.0, 5.0, 300.0),
\* i.e. 100 sin(2 pi 2 t) + 300 sin(2 pi 5 t) at t = i / 52 for i < 156 and
\* zero for 156 <= i < 256, taken through steps 1 and 2 of processSignal
\* (mean of the 156 samples removed, Hamming weights
\* 0.54 - 0.46 cos(2 pi i / 255) over the 256 points, 256-point DFT,
\* magnitudes).  The magnitudes of bins 0..128, rounded to integers.
ScenarioE_Magnitudes ==
  <<
    729, 857, 807, 811, 954, 880, 1098, 1263, 1806, 4217, 4654, 2217,
    366, 73, 308, 388, 526, 687, 725, 1017, 1174, 1537, 2257, 5122,
    12489, 13628, 6691, 2429, 1586, 1276, 1000, 778, 757, 572, 552, 502,
    403, 430, 346, 334, 330, 264, 290, 247, 231, 242, 194, 213,
    191, 172, 188, 153, 164, 156, 135, 152, 126, 132, 132, 111,
    127, 109, 108, 114, 94, 107, 96, 91, 100, 82, 93, 87,
    79, 89, 74, 81, 80, 69, 80, 68, 71, 74, 62, 73,
    64, 64, 69, 57, 66, 61, 58, 65, 54, 61, 59, 53,
    61, 52, 56, 57, 49, 58, 50, 52, 55, 47, 55, 50,
    49, 54, 45, 52, 49, 46, 53, 45, 50, 49, 44, 52,
    45, 48, 50, 43, 51, 45, 46, 50, 43
  >>

\* vReal after complexToMagnitude for that window (the magnitudes of a real
\* input are symmetric about bin SAMPLES / 2)
ScenarioE_Spectrum ==
  [i \in 0..(SAMPLES - 1) |->
     IF i <= SAMPLES \div 2 THEN ScenarioE_Magnitudes[i + 1]
     ELSE ScenarioE_Magnitudes[SAMPLES - i + 1]]

\* the windows the model feeds, and what step 3 makes of them
Spectra ==
  {Spectrum(bins, aL, aT, aD, aX, aO) :
     bins \in {LowBins, HighBins}, aL \in Amps, aT \in Amps, aD \in Amps,
     aX \in HighAmps, aO \in {0, LeakAmp}}
  \cup {ScenarioE_Spectrum}

WindowEnergies == {BandEnergies(v) : v \in Spectra}

\* the statics of processSignal and its result bytes before any window
ClassifierInit ==
  /\ isFrozenState = FALSE
  /\ wasWalking = FALSE
  /\ tremorVal = 0
  /\ dyskinesiaVal = 0
  /\ fogVal = 0
  /\ energyLocomotor = 0
  /\ energyTremor = 0
  /\ energyDyskinesia = 0
  /\ energyFreeze = 0
  /\ status = <<>>
  /\ divisors = {}

\* double vReal[SAMPLES], int sampleIndex = 0, unsigned long
\* lastSampleTime = 0 (zero-initialised globals)
LoopInit ==
  /\ sampleIndex = 0
  /\ due = FALSE
  /\ vReal = [i \in 0..(SAMPLES - 1) |-> 0]
  /\ lastRead = "none"

\* the statics of sensors.cpp right after sensors_start(); buffer may hold
\* anything older than the start, all of which carries id 0
SensorsInit ==
  /\ sample_flag = FALSE
  /\ head = 0
  /\ filled = FALSE
  /\ buffer = [i \in 0..(WINDOW_SAMPLES - 1) |-> 0]
  /\ last_window = [data |-> [i \in 0..(WINDOW_SAMPLES - 1) |-> 0],
                    length |-> 0]
  /\ window = [data |-> [i \in 0..(WINDOW_SAMPLES - 1) |-> 0], length |-> 0]
  /\ ret = "none"
  /\ use_synthetic = FALSE
  /\ lastSource = "none"

\* the globals of main.cpp when main() enters while (true)
MainInit ==
  /\ index = 0
  /\ accel = [i \in 0..(BUFFER_SIZE - 1) |-> 0]
  /\ button_pressed = FALSE
  /\ pc = "collect"
  /\ results = [tremor_detected |-> FALSE, dyskinesia_detected |-> FALSE,
                freezing_detected |-> FALSE, freezing_confidence |-> 0]

\* no shifted copy is processed alongside
DcIdle ==
  /\ dcOffset = 0
  /\ vRealShifted = [i \in 0..(SAMPLES - 1) |-> 0]
  /\ dcStage = "raw"

\* DetectionResult res = {0, 0, 0}
TestInit == res = [tremor |-> 0, dyskinesia |-> 0, fog |-> 0]

\* nothing analysed yet: GaitStatus g{}, MovementAnalysis result{0, 0}
AnalysisInit ==
  /\ gait_status = [fog_state |-> 0, step_rate_spm |-> 0, variability |-> 0]
  /\ movement = [tremor_level |-> 0, dyskinesia_level |-> 0]
  /\ band_percent = 0
  /\ powers = [total |-> 0, tremor |-> 0, dysk |-> 0]
  /\ denominators = {}
  /\ called = "none"

\* main_best.cpp before any window: its statics false, its result bytes 0
BestInit ==
  best = [frozen |-> FALSE, walking |-> FALSE, tremorVal |-> 0,
          dyskinesiaVal |-> 0, fogVal |-> 0, status |-> <<>>,
          divisors |-> {}]

\* no interrupt yet and no call under way
IsrInit ==
  /\ ticks = 0
  /\ call = "idle"
  /\ pushed = 0

BookInit ==
  /\ accepted = 0
  /\ emitCount = 0
  /\ lastEmitAt = 0
  /\ prevEmitAt = 0
  /\ lastWindow = <<>>
  /\ prevWindow = <<>>

Init ==
  /\ variant = "classifier"
  /\ ClassifierInit
  /\ LoopInit
  /\ SensorsInit
  /\ MainInit
  /\ BookInit
  /\ TestInit
  /\ AnalysisInit
  /\ BestInit
  /\ IsrInit
  /\ DcIdle

\* the state machine part of processSignal on a window whose band energies
\* are drawn from E
Classification(E) ==
    \E e \in E :
    \E r \in {Classify(e, isFrozenState, wasWalking)} :
       /\ energyLocomotor' = e.loc
       /\ energyTremor' = e.tremor
       /\ energyDyskinesia' = e.dysk
       /\ energyFreeze' = e.freeze
       /\ isFrozenState' = r.frozen
       /\ wasWalking' = r.walking
       /\ tremorVal' = r.tremorVal
       /\ dyskinesiaVal' = r.dyskinesiaVal
       /\ fogVal' = r.fogVal
       /\ status' = r.status
       /\ divisors' = r.divisors

\* One call of processSignal on a completed window: the band energies of
\* the window's spectrum, then the state machine
ProcessSignal ==
  /\ variant = "classifier"
  /\ Classification(WindowEnergies)
  /\ UNCHANGED <<variant, bestVars, isrVars, analysisVars, testVars, dcVars, loopVars, sensorsVars, mainVars, bookVars>>

Next == ProcessSignal

Spec == Init /\ [][Next]_vars

(***************************************************************************)
(* Vocabulary of the properties                                            *)
(***************************************************************************)
\* the band energies of the window the state results from
Energies ==
  [loc |-> energyLocomotor, tremor |-> energyTremor,
   dysk |-> energyDyskinesia, freeze |-> energyFreeze]

\* the last line a window printed names the rule that classified it
LastStatus == IF status = <<>> THEN "" ELSE status[Len(status)]

FirstStatus == IF status = <<>> THEN "" ELSE status[1]

FrozenStatuses ==
  {"Status: FOG -> Tremor Transition.", "EVENT: FOG (Continuing...)",
   "Status: FOG Ended (Idle)."}

\* "tremor is dominant": above the threshold and above both other bands
TremorDominant(e) ==
  e.tremor > ACTION_THRESHOLD /\ e.tremor > e.dysk /\ e.tremor > e.loc

\* the FOG entry condition of rule 4, the ratio test false for a zero
\* denominator
FogEntry(e, ww) ==
  \/ e.loc > WALK_THRESHOLD /\ e.loc # 0 /\ 2 * e.freeze > 3 * e.loc
  \/ ww /\ e.freeze > ACTION_THRESHOLD /\ e.freeze > e.loc

\* min(energy / 1000, 100) as an integer percentage
Percent(energy) ==
  IF energy >= 100 * 1000 THEN 100 ELSE energy \div 1000

NoSymptom == tremorVal = 0 /\ dyskinesiaVal = 0 /\ fogVal = 0

\* C1: in every state, at most one of tremor_intensity > 0,
\* dyskinesia_intensity > 0, fog_active holds of the emitted result.
C1_AtMostOneSymptom ==
  /\ ~(tremorVal > 0 /\ dyskinesiaVal > 0)
  /\ ~(tremorVal > 0 /\ fogVal # 0)
  /\ ~(dyskinesiaVal > 0 /\ fogVal # 0)

\* a window in which tremor is dominant and the FOG entry ratio holds too
C1_Witness ==
  /\ tremorVal > 0 /\ dyskinesiaVal = 0 /\ fogVal = 0
  /\ energyLocomotor > WALK_THRESHOLD
  /\ 2 * energyFreeze > 3 * energyLocomotor

\* C2: the emitted intensities are in 0..100, whatever the energies.
C2_IntensitiesInRange ==
  /\ tremorVal \in 0..100
  /\ dyskinesiaVal \in 0..100

\* a tremor window whose energy / 1000 is far above 100
C2_Witness == energyTremor > 150000 /\ tremorVal = 100

\* C3: every window's result and next state are those of the first rule, in
\* the order 1a, 1b, (1c), 2, 3, 4, 5, 6, whose guard holds for the window's
\* energies and the prior state.
RuleTable(e, f, ww) ==
  IF f /\ TremorDominant(e)
  THEN [rule |-> "1a", frozen |-> FALSE, walking |-> FALSE,
        tremor |-> Percent(e.tremor), dysk |-> 0, fog |-> 0]
  ELSE IF f /\ e.freeze > ACTION_THRESHOLD
  THEN [rule |-> "1b", frozen |-> TRUE, walking |-> ww,
        tremor |-> 0, dysk |-> 0, fog |-> 1]
  ELSE IF e.tremor > ACTION_THRESHOLD /\ e.tremor > e.loc
          /\ e.tremor > e.dysk
  THEN [rule |-> "2", frozen |-> FALSE, walking |-> FALSE,
        tremor |-> Percent(e.tremor), dysk |-> 0, fog |-> 0]
  ELSE IF e.dysk > ACTION_THRESHOLD /\ e.dysk > e.tremor
  THEN [rule |-> "3", frozen |-> FALSE, walking |-> FALSE,
        tremor |-> 0, dysk |-> Percent(e.dysk), fog |-> 0]
  ELSE IF FogEntry(e, ww)
  THEN [rule |-> "4", frozen |-> TRUE, walking |-> FALSE,
        tremor |-> 0, dysk |-> 0, fog |-> 1]
  ELSE IF e.loc > WALK_THRESHOLD
  THEN [rule |-> "5", frozen |-> FALSE, walking |-> TRUE,
        tremor |-> 0, dysk |-> 0, fog |-> 0]
  ELSE [rule |-> "6", frozen |-> FALSE, walking |-> FALSE,
        tremor |-> 0, dysk |-> 0, fog |-> 0]

RuleOfStatus(line) ==
  CASE line = "Status: FOG -> Tremor Transition." -> "1a"
    [] line = "EVENT: FOG (Continuing...)" -> "1b"
    [] line = "EVENT: Tremor (Resting)" -> "2"
    [] line = "EVENT: Dyskinesia" -> "3"
    [] line = "EVENT: FOG (Started!)" -> "4"
    [] line = "Status: Walking..." -> "5"
    [] line = "Status: Idle (Still)" -> "6"
    [] OTHER -> "?"

C3_FirstMatchStep ==
  LET x == RuleTable(Energies', isFrozenState, wasWalking)
  IN /\ RuleOfStatus(LastStatus') = x.rule
     /\ isFrozenState' = x.frozen
     /\ wasWalking' = x.walking
     /\ tremorVal' = x.tremor
     /\ dyskinesiaVal' = x.dysk
     /\ fogVal' = x.fog
     \* 1c: the fallthrough is announced exactly when a frozen window
     \* matches neither 1a nor 1b
     /\ (Len(status') = 2) = (isFrozenState /\ x.rule \notin {"1a", "1b"})

C3_FirstMatchWins == [][C3_FirstMatchStep]_vars

\* tremor took effect in a window in which the FOG entry ratio and the
\* walking guard hold as well
C3_Witness ==
  /\ LastStatus = "EVENT: Tremor (Resting)"
  /\ energyLocomotor > WALK_THRESHOLD
  /\ 2 * energyFreeze > 3 * energyLocomotor
  /\ tremorVal > 0 /\ fogVal = 0 /\ ~isFrozenState /\ ~wasWalking

\* C4 as stated: a window that starts frozen, whose freeze energy does not
\* exceed ACTION_THRESHOLD and in which tremor is not dominant, ends idle:
\* is_frozen and was_walking cleared, no symptom emitted.
C4_Original_Step ==
  (isFrozenState /\ energyFreeze' <= ACTION_THRESHOLD
     /\ ~TremorDominant(Energies'))
  => (~isFrozenState' /\ ~wasWalking' /\ NoSymptom')

C4_Amended_Step ==
  (isFrozenState /\ energyFreeze' <= ACTION_THRESHOLD
     /\ ~TremorDominant(Energies'))
  => /\ ~isFrozenState'
     /\ NoSymptom'
     /\ wasWalking' = (energyLocomotor' > WALK_THRESHOLD)

C5_Step ==
  (isFrozenState /\ energyTremor' > ACTION_THRESHOLD
     /\ energyTremor' > energyDyskinesia'
     /\ energyTremor' > energyLocomotor')
  => /\ tremorVal' > 0 /\ fogVal' = 0 /\ dyskinesiaVal' = 0
     /\ ~isFrozenState' /\ ~wasWalking'

C5_FrozenToTremor == [][C5_Step]_vars

C5_Witness ==
  /\ status = <<"Status: FOG -> Tremor Transition.">>
  /\ energyFreeze > ACTION_THRESHOLD
  /\ tremorVal > 0 /\ fogVal = 0 /\ ~isFrozenState

\* C6: a window that starts frozen, is not tremor-dominant and has freeze
\* energy above ACTION_THRESHOLD emits fog_active and stays frozen, whatever
\* the locomotor energy and whether or not the FOG entry condition holds.
C6_Step ==
  (isFrozenState /\ ~TremorDominant(Energies')
     /\ energyFreeze' > ACTION_THRESHOLD)
  => (fogVal' = 1 /\ isFrozenState' /\ tremorVal' = 0 /\ dyskinesiaVal' = 0)

C6_FrozenMaintained == [][C6_Step]_vars

\* FOG continued in a window in which the entry condition does not hold and
\* in which dyskinesia would otherwise have been reported
C6_Witness ==
  /\ status = <<"EVENT: FOG (Continuing...)">>
  /\ isFrozenState /\ fogVal = 1
  /\ ~FogEntry(Energies, FALSE)
  /\ energyDyskinesia > ACTION_THRESHOLD
  /\ energyDyskinesia > energyTremor

\* C7: when rules 1-3 do not match and the FOG entry condition holds, the
\* window emits fog_active only, sets is_frozen and clears was_walking; and
\* a window that starts with is_frozen set is evaluated by the FROZEN
\* maintenance rule first.
C7_Step ==
  /\ (/\ ~(isFrozenState /\ TremorDominant(Energies'))
      /\ ~(isFrozenState /\ energyFreeze' > ACTION_THRESHOLD)
      /\ ~(energyTremor' > ACTION_THRESHOLD
             /\ energyTremor' > energyLocomotor'
             /\ energyTremor' > energyDyskinesia')
      /\ ~(energyDyskinesia' > ACTION_THRESHOLD
             /\ energyDyskinesia' > energyTremor')
      /\ FogEntry(Energies', wasWalking))
     => (fogVal' = 1 /\ tremorVal' = 0 /\ dyskinesiaVal' = 0
           /\ isFrozenState' /\ ~wasWalking')
  /\ isFrozenState => FirstStatus' \in FrozenStatuses

C7_FogTrigger == [][C7_Step]_vars

\* FOG started by the ratio branch
C7_Witness ==
  /\ status = <<"EVENT: FOG (Started!)">>
  /\ energyLocomotor > WALK_THRESHOLD
  /\ 2 * energyFreeze > 3 * energyLocomotor
  /\ isFrozenState /\ ~wasWalking /\ fogVal = 1

\* C8: a window classified as walking, immediately followed by a window with
\* locomotor energy not above WALK_THRESHOLD, freeze energy above
\* ACTION_THRESHOLD and above locomotor energy, and neither the tremor nor
\* the dyskinesia rule matching, makes the second window emit fog_active and
\* set is_frozen.
C8_Step ==
  (/\ LastStatus = "Status: Walking..."
   /\ energyLocomotor' <= WALK_THRESHOLD
   /\ energyFreeze' > ACTION_THRESHOLD
   /\ energyFreeze' > energyLocomotor'
   /\ ~(energyTremor' > ACTION_THRESHOLD
          /\ energyTremor' > energyLocomotor'
          /\ energyTremor' > energyDyskinesia')
   /\ ~(energyDyskinesia' > ACTION_THRESHOLD
          /\ energyDyskinesia' > energyTremor'))
  => (fogVal' = 1 /\ isFrozenState')

C8_WalkingMemory == [][C8_Step]_vars

\* FOG started in a window whose own locomotor energy is not walking-level:
\* only the context branch, hence a preceding walking window, gets there
C8_Witness ==
  /\ status = <<"EVENT: FOG (Started!)">>
  /\ energyLocomotor <= WALK_THRESHOLD
  /\ energyFreeze > ACTION_THRESHOLD
  /\ fogVal = 1 /\ isFrozenState

\* C9 as stated: whenever tremor and dyskinesia energy both exceed
\* ACTION_THRESHOLD, exactly the symptom of the higher band is reported.
C9_Original ==
  (status # <<>> /\ energyTremor > ACTION_THRESHOLD
     /\ energyDyskinesia > ACTION_THRESHOLD)
  => /\ (energyTremor > energyDyskinesia
           => tremorVal > 0 /\ dyskinesiaVal = 0)
     /\ (energyDyskinesia > energyTremor
           => dyskinesiaVal > 0 /\ tremorVal = 0)

\* C9 amended: whenever both energies exceed ACTION_THRESHOLD, never both
\* and never the lower band are reported; tremor is reported iff it is the
\* higher band and also exceeds locomotor energy, dyskinesia is reported iff
\* it is the higher band and the window did not start frozen.
C9_Amended_Step ==
  (energyTremor' > ACTION_THRESHOLD /\ energyDyskinesia' > ACTION_THRESHOLD)
  => /\ ~(tremorVal' > 0 /\ dyskinesiaVal' > 0)
     /\ (tremorVal' > 0) = (energyTremor' > energyDyskinesia'
                              /\ energyTremor' > energyLocomotor')
     /\ (dyskinesiaVal' > 0) = (energyDyskinesia' > energyTremor'
                                  /\ ~isFrozenState)

C9_HigherBandWins == [][C9_Amended_Step]_vars

\* both bands above the threshold, dyskinesia the higher and reported
C9_Witness ==
  /\ energyTremor > ACTION_THRESHOLD
  /\ energyDyskinesia > energyTremor
  /\ dyskinesiaVal > 0 /\ tremorVal = 0 /\ fogVal = 0

\* C10: the quotient freeze / locomotor is formed only with a locomotor
\* energy above WALK_THRESHOLD (so never with zero); a window with zero
\* locomotor energy divides nothing and starts FOG only through the
\* was_walking context branch.
C10_Step ==
  /\ \A d \in divisors' : d > WALK_THRESHOLD /\ d # 0
  /\ energyLocomotor' = 0
     => /\ divisors' = {}
        /\ LastStatus' = "EVENT: FOG (Started!)"
           => (wasWalking /\ energyFreeze' > ACTION_THRESHOLD)

C10_GuardedRatio == [][C10_Step]_vars

\* FOG started by a window with zero locomotor energy
C10_Witness ==
  /\ status = <<"EVENT: FOG (Started!)">>
  /\ energyLocomotor = 0
  /\ divisors = {}
  /\ fogVal = 1

\* C16: the classifier state is {is_frozen: false, was_walking: false}
\* when the first window is classified; the first window is never handled
\* by the FROZEN maintenance rule and starts FOG only through the mixed-mode
\* branch (locomotor > WALK_THRESHOLD and freeze / locomotor > 1.5).
C16_Step ==
  status = <<>>
  => /\ ~isFrozenState /\ ~wasWalking
     /\ FirstStatus' \notin FrozenStatuses
     /\ fogVal' # 0
        => /\ energyLocomotor' > WALK_THRESHOLD
           /\ 2 * energyFreeze' > 3 * energyLocomotor'

C16_FirstWindow == [][C16_Step]_vars

\* a first window whose freeze energy is above the threshold and above its
\* locomotor energy, which is not walking-level: no FOG without the memory
C16_Witness ==
  /\ status = <<"Status: Idle (Still)">>
  /\ energyFreeze > ACTION_THRESHOLD
  /\ energyFreeze > energyLocomotor
  /\ energyLocomotor <= WALK_THRESHOLD
  /\ fogVal = 0 /\ ~isFrozenState

\* C19: when the tremor (resp. dyskinesia) rule fires, the emitted
\* intensity is min(floor(energy / 1000), 100) of the tremor (resp.
\* dyskinesia) energy, the other intensity is 0, fog_active is false, and
\* is_frozen and was_walking are both false afterwards.
C19_Step ==
  /\ (/\ ~(isFrozenState /\ TremorDominant(Energies'))
      /\ ~(isFrozenState /\ energyFreeze' > ACTION_THRESHOLD)
      /\ energyTremor' > ACTION_THRESHOLD
      /\ energyTremor' > energyLocomotor'
      /\ energyTremor' > energyDyskinesia')
     => /\ tremorVal' = Percent(energyTremor')
        /\ dyskinesiaVal' = 0 /\ fogVal' = 0
        /\ ~isFrozenState' /\ ~wasWalking'
  /\ (/\ ~(isFrozenState /\ TremorDominant(Energies'))
      /\ ~(isFrozenState /\ energyFreeze' > ACTION_THRESHOLD)
      /\ ~(energyTremor' > ACTION_THRESHOLD
             /\ energyTremor' > energyLocomotor'
             /\ energyTremor' > energyDyskinesia')
      /\ energyDyskinesia' > ACTION_THRESHOLD
      /\ energyDyskinesia' > energyTremor')
     => /\ dyskinesiaVal' = Percent(energyDyskinesia')
        /\ tremorVal' = 0 /\ fogVal' = 0
        /\ ~isFrozenState' /\ ~wasWalking'

C19_IntensityScaling == [][C19_Step]_vars

\* the dyskinesia rule fired with an unclamped intensity
C19_Witness ==
  /\ status = <<"EVENT: Dyskinesia">>
  /\ energyDyskinesia > ACTION_THRESHOLD
  /\ energyDyskinesia < 100 * 1000
  /\ dyskinesiaVal = energyDyskinesia \div 1000
  /\ tremorVal = 0 /\ fogVal = 0 /\ ~isFrozenState /\ ~wasWalking

\* C20: if no earlier rule matches, the window sets was_walking when
\* locomotor energy exceeds WALK_THRESHOLD and clears it otherwise; in both
\* cases no symptom is emitted and is_frozen is false afterwards.
C20_Step ==
  (/\ ~(isFrozenState /\ TremorDominant(Energies'))
   /\ ~(isFrozenState /\ energyFreeze' > ACTION_THRESHOLD)
   /\ ~(energyTremor' > ACTION_THRESHOLD
          /\ energyTremor' > energyLocomotor'
          /\ energyTremor' > energyDyskinesia')
   /\ ~(energyDyskinesia' > ACTION_THRESHOLD
          /\ energyDyskinesia' > energyTremor')
   /\ ~FogEntry(Energies', wasWalking))
  => /\ wasWalking' = (energyLocomotor' > WALK_THRESHOLD)
     /\ NoSymptom'
     /\ ~isFrozenState'

C20_WalkingOrIdle == [][C20_Step]_vars

\* an idle window whose locomotor energy is present but not walking-level
C20_Witness ==
  /\ status = <<"Status: Idle (Still)">>
  /\ energyLocomotor <= WALK_THRESHOLD
  /\ energyLocomotor > 0
  /\ ~wasWalking /\ ~isFrozenState /\ NoSymptom

\* C18: the window holding the composite signal 2 Hz at 100 mg plus 5 Hz at
\* 300 mg, classified from the initial classifier state (is_frozen and
\* was_walking both false), yields fog_active = true.
C18_Step ==
  (~isFrozenState /\ ~wasWalking
     /\ Energies' = BandEnergies(ScenarioE_Spectrum))
  => fogVal' = 1

C18_ScenarioE == [][C18_Step]_vars

\* what the firmware makes of that window: dyskinesia
C18_Observed ==
  /\ Energies = BandEnergies(ScenarioE_Spectrum)
  /\ status = <<"EVENT: Dyskinesia">>
  /\ dyskinesiaVal = 29 /\ tremorVal = 0 /\ fogVal = 0

(***************************************************************************)
(* Window assembly.  Three programs of the repository turn the sample      *)
(* stream into windows: loop() of main_last.cpp, sensors_get_window() of   *)
(* sensors.cpp and the while (true) body of main() in main.cpp.  The k-th  *)
(* sample a program stores carries the id k, so a window is the sequence   *)
(* of the ids of its samples.                                              *)
(***************************************************************************)

\* the spectra the loop's windows have: nothing, a gait peak, a tremor peak
LoopEnergies ==
  {BandEnergies(Spectrum(LowBins, aL, aT, 0, 0, 0)) :
     aL \in {0, MaxAmp * AmpStep}, aT \in {0, MaxAmp * AmpStep}}

\* a window of w samples read off an array a in index order
WindowOf(a, w) == [i \in 1..w |-> a[i - 1]]

\* the bookkeeping of one window w handed to analysis after n samples
Emit(w, n) ==
  /\ emitCount' = emitCount + 1
  /\ prevEmitAt' = lastEmitAt
  /\ lastEmitAt' = n
  /\ prevWindow' = lastWindow
  /\ lastWindow' = w

NoEmit == UNCHANGED <<emitCount, lastEmitAt, prevEmitAt, lastWindow, prevWindow>>

\* ---- main_last.cpp ----

\* micros() advances until a sample period has passed since lastSampleTime
Tick ==
  /\ variant = "main_last"
  /\ ~due
  /\ due' = TRUE
  /\ UNCHANGED <<classifierVars, variant, bestVars, isrVars, analysisVars, testVars, dcVars, sampleIndex, vReal, lastRead,
                 sensorsVars, mainVars, bookVars>>

\* mutant of LoopSample: no test of sampleIndex against REAL_SAMPLES
LoopSample_NoBound ==
  /\ variant = "main_last"
  /\ due
  /\ sampleIndex < SAMPLES - 1
  /\ accepted < MaxSamples
  /\ lastRead' = "ok"
  /\ due' = FALSE
  /\ vReal' = [vReal EXCEPT ![sampleIndex] = accepted + 1]
  /\ sampleIndex' = sampleIndex + 1
  /\ accepted' = accepted + 1
  /\ NoEmit
  /\ UNCHANGED <<classifierVars, variant, bestVars, isrVars, analysisVars, testVars, dcVars, sensorsVars, mainVars>>

\* loop(), the buffer not full yet and the sensor delivers its six bytes
LoopSample ==
  /\ variant = "main_last"
  /\ due
  /\ sampleIndex < REAL_SAMPLES
  /\ accepted < MaxSamples
  /\ lastRead' = "ok"
  /\ due' = FALSE
  /\ vReal' = [vReal EXCEPT ![sampleIndex] = accepted + 1]
  /\ sampleIndex' = sampleIndex + 1
  /\ accepted' = accepted + 1
  /\ NoEmit
  /\ UNCHANGED <<classifierVars, variant, bestVars, isrVars, analysisVars, testVars, dcVars, sensorsVars, mainVars>>

\* loop(), the buffer not full yet and the sensor delivers fewer bytes
LoopShortRead ==
  /\ variant = "main_last"
  /\ due
  /\ sampleIndex < REAL_SAMPLES
  /\ lastRead' = "short"
  /\ UNCHANGED <<classifierVars, variant, bestVars, isrVars, analysisVars, testVars, dcVars, sampleIndex, due, vReal,
                 sensorsVars, mainVars, bookVars>>

\* mutant of LoopProcess: the buffer is not reset after processing
LoopProcess_NoReset ==
  /\ variant = "main_last"
  /\ due
  /\ sampleIndex >= REAL_SAMPLES
  /\ Classification(LoopEnergies)
  /\ Emit(WindowOf(vReal, REAL_SAMPLES), accepted)
  /\ sampleIndex' = REAL_SAMPLES - 1
  /\ UNCHANGED <<variant, bestVars, isrVars, analysisVars, testVars, dcVars, due, vReal, lastRead, accepted, sensorsVars,
                 mainVars>>

\* loop(), the buffer full: processSignal, then the reset
LoopProcess ==
  /\ variant = "main_last"
  /\ due
  /\ sampleIndex >= REAL_SAMPLES
  /\ Classification(LoopEnergies)
  /\ Emit(WindowOf(vReal, REAL_SAMPLES), accepted)
  /\ sampleIndex' = 0
  /\ vReal' = [i \in 0..(SAMPLES - 1) |-> 0]
  /\ UNCHANGED <<variant, bestVars, isrVars, analysisVars, testVars, dcVars, due, lastRead, accepted, sensorsVars, mainVars>>

\* ---- sensors.cpp ----

\* the ticker interrupt
SampleIsr ==
  /\ variant = "sensors"
  /\ accepted < MaxSamples
  /\ sample_flag' = TRUE
  /\ UNCHANGED <<classifierVars, variant, bestVars, isrVars, analysisVars, testVars, dcVars, loopVars, head,
                 filled, buffer, last_window, window, ret, use_synthetic,
                 lastSource, mainVars, bookVars>>

\* mutant of BuildWindow: the copy starts at index 0 instead of head
BuildWindow_FromZero(b, h) ==
  [data |-> [i \in 0..(WINDOW_SAMPLES - 1) |-> b[i]],
   length |-> WINDOW_SAMPLES]

\* step 4 of sensors_get_window: the time-ordered copy starting at head
BuildWindow(b, h) ==
  [data |-> [i \in 0..(WINDOW_SAMPLES - 1) |-> b[(h + i) % WINDOW_SAMPLES]],
   length |-> WINDOW_SAMPLES]

\* mutant of PushWraps: the buffer counts as full one sample early
PushWraps_Early(h) == h + 1 >= WINDOW_SAMPLES - 1

\* head++ reaches the end of the ring
PushWraps(h) == h + 1 >= WINDOW_SAMPLES

\* mutant of FilledAfterPush: filled holds only in the call that wraps
FilledAfterPush_Forgets(fl, h) == PushWraps(h)

\* if (head >= WINDOW_SAMPLES) { head = 0; filled = true; }
FilledAfterPush(fl, h) == fl \/ PushWraps(h)

\* imu_read_accel: read_int16 drops the result of read_reg, so a bus error
\* leaves lo = hi = 0 in the raw value and the function still returns true
ImuReadAccel(busOk) ==
  [ok |-> TRUE, source |-> IF busOk THEN "imu" ELSE "failed_read"]

\* read_imu_accel: the IMU unless use_synthetic; the switch to synthetic
\* mode is taken when imu_read_accel returns false
ReadImuAccel(us, busOk) ==
  IF ~us /\ ImuReadAccel(busOk).ok
    THEN [ok |-> TRUE, use_synthetic |-> us,
          source |-> ImuReadAccel(busOk).source]
    ELSE [ok |-> TRUE, use_synthetic |-> TRUE, source |-> "synthetic"]

\* sensors_init: synthetic mode exactly if imu_init does not find the IMU
sensors_init ==
  /\ variant = "sensors"
  /\ \E found \in BOOLEAN : use_synthetic' = ~found
  /\ UNCHANGED <<classifierVars, variant, bestVars, isrVars, analysisVars, testVars, dcVars, loopVars,
                 sample_flag, head, filled, buffer, last_window, window, ret,
                 lastSource, mainVars, bookVars>>

\* the samples since sensors_start are numbered from 1; whatever the buffer
\* and the windows hold from before is stale and carries 0
SensorsStart ==
  /\ variant = "sensors"
  /\ head' = 0
  /\ filled' = FALSE
  /\ sample_flag' = FALSE
  /\ buffer' = [i \in 0..(WINDOW_SAMPLES - 1) |-> 0]
  /\ last_window' = [last_window EXCEPT
                       !.data = [i \in 0..(WINDOW_SAMPLES - 1) |-> 0]]
  /\ window' = [window EXCEPT
                  !.data = [i \in 0..(WINDOW_SAMPLES - 1) |-> 0]]
  /\ ret' = "none"
  /\ lastSource' = "none"
  /\ accepted' = 0
  /\ emitCount' = 0
  /\ lastEmitAt' = 0
  /\ prevEmitAt' = 0
  /\ lastWindow' = <<>>
  /\ prevWindow' = <<>>
  /\ UNCHANGED <<classifierVars, variant, bestVars, isrVars, analysisVars, testVars, dcVars, loopVars,
                 use_synthetic, mainVars>>

\* one call of sensors_get_window
SensorsGetWindow ==
  /\ variant = "sensors"
  /\ IF ~sample_flag
       THEN /\ ret' = "false"
            /\ UNCHANGED <<sample_flag, head, filled, buffer, last_window,
                           window, use_synthetic, lastSource, bookVars>>
       ELSE \E busOk \in BOOLEAN :
            \E rd \in {ReadImuAccel(use_synthetic, busOk)} :
            \E b \in {[buffer EXCEPT ![head] = accepted + 1]} :
            \E h \in {IF PushWraps(head) THEN 0 ELSE head + 1} :
            \E f \in {FilledAfterPush(filled, head)} :
              /\ sample_flag' = FALSE
              /\ use_synthetic' = rd.use_synthetic
              /\ lastSource' = rd.source
              /\ rd.ok
              /\ buffer' = b
              /\ head' = h
              /\ filled' = f
              /\ accepted' = accepted + 1
              /\ IF ~f
                   THEN /\ ret' = "false"
                        /\ NoEmit
                        /\ UNCHANGED <<last_window, window>>
                   ELSE \E w \in {BuildWindow(b, h)} :
                          /\ last_window' = w
                          /\ window' = w
                          /\ ret' = "true"
                          /\ Emit(WindowOf(w.data, w.length), accepted + 1)
  /\ UNCHANGED <<classifierVars, variant, bestVars, isrVars, analysisVars, testVars, dcVars, loopVars,
                 mainVars>>

\* ---- main.cpp ----

\* gait_update on a window of length 0
GaitUpdateEmpty == [fog_state |-> 0, step_rate_spm |-> 0, variability |-> 0]

\* v[a] + ... + v[b]
RECURSIVE SumRange(_, _, _)
SumRange(v, a, b) ==
  IF a > b THEN 0
  ELSE IF a = b THEN v[a]
  ELSE LET m == (a + b) \div 2
       IN SumRange(v, a, m) + SumRange(v, m + 1, b)

\* sum2 of compute_rms: the sum of the squares of the samples
SumSquares(w) ==
  SumRange([n \in 0..(w.length - 1) |-> w.data[n] * w.data[n]],
           0, w.length - 1)

\* the step detector: samples at or above STEP_THR whose predecessor is not
StepCount(w) ==
  SumRange([n \in 0..(w.length - 1) |->
              IF w.data[n] >= STEP_THR /\ (n = 0 \/ w.data[n - 1] < STEP_THR)
              THEN 1 ELSE 0],
           0, w.length - 1)

\* steps / WINDOW_SEC * 60
StepRate(w) == (StepCount(w) * 60) \div WINDOW_SEC

\* rms < c, c in thousandths of g
RmsBelow(w, c) == SumSquares(w) < c * c * w.length

\* static_cast<uint8_t>(var_score + 0.5f), var_score = rms * 50 clamped to
\* 0..100
Variability(w) ==
  CHOOSE n \in 0..100 :
    /\ n = 0 \/ (20 * n - 10) * (20 * n - 10) * w.length <= SumSquares(w)
    /\ n = 100 \/ SumSquares(w) < (20 * n + 10) * (20 * n + 10) * w.length

\* step 3 of gait_update: 0 for a very low rms, the rate itself inside the
\* walking band, 0 above ARTIFACT_SPM_THR, and otherwise the rate clamped
\* into the walking band
StepRateOut(w) ==
  IF RmsBelow(w, RMS_WALK_MIN) THEN 0
  ELSE IF StepRate(w) >= WALK_MIN_SPM /\ StepRate(w) <= WALK_MAX_SPM
  THEN StepRate(w)
  ELSE IF StepRate(w) > ARTIFACT_SPM_THR THEN 0
  ELSE IF StepRate(w) < WALK_MIN_SPM THEN WALK_MIN_SPM
  ELSE IF StepRate(w) > WALK_MAX_SPM THEN WALK_MAX_SPM
  ELSE StepRate(w)

\* mutant of GaitUpdateOn: an empty window is reported as a freeze
GaitUpdateOn_EmptyIsFreeze(w) ==
  [status |-> [fog_state |-> 1, step_rate_spm |-> 0, variability |-> 0],
   denominators |-> {}]

\* gait_update; status is the GaitStatus returned, denominators what the
\* call divided by (window.length in compute_rms, WINDOW_SEC)
GaitUpdateOn(w) ==
  IF w.length = 0
  THEN [status |-> GaitUpdateEmpty, denominators |-> {}]
  ELSE [status |->
          [fog_state |-> IF /\ StepRateOut(w) >= WALK_MIN_SPM
                            /\ StepRateOut(w) <= WALK_MAX_SPM
                            /\ RmsBelow(w, FOG_RMS_MAX)
                         THEN 1 ELSE 0,
           step_rate_spm |-> StepRateOut(w),
           variability |-> Variability(w)],
        denominators |-> {w.length, WINDOW_SEC}]

\* SignalWindow{}: value-initialised, data all zero and length 0
EmptyWindow ==
  [data |-> [i \in 0..(WINDOW_SAMPLES - 1) |-> 0], length |-> 0]

\* the button interrupt
OnButtonPress ==
  /\ variant = "main"
  /\ button_pressed' = TRUE
  /\ UNCHANGED <<classifierVars, variant, bestVars, isrVars, analysisVars, testVars, dcVars, loopVars, sensorsVars, index,
                 accel, pc, results, bookVars>>

\* read_accelerometer and collect_data_sample
MainCollect ==
  /\ variant = "main"
  /\ pc = "collect"
  /\ accepted < MaxSamples
  /\ accel' = [accel EXCEPT ![index] = accepted + 1]
  /\ index' = (index + 1) % BUFFER_SIZE
  /\ accepted' = accepted + 1
  /\ pc' = "auto"
  /\ NoEmit
  /\ UNCHANGED <<classifierVars, variant, bestVars, isrVars, analysisVars, testVars, dcVars, loopVars, sensorsVars,
                 button_pressed, results>>

buffer_is_full == index = 0

\* detect_symptoms: nothing unless the buffer is full; the band analyses
\* decide tremor and dyskinesia, gait_update(SignalWindow{}) the freezing
detect_symptoms ==
  IF ~buffer_is_full
    THEN UNCHANGED <<results, bookVars>>
    ELSE /\ \E t \in BOOLEAN, d \in BOOLEAN :
              \E g \in {GaitUpdateOn(EmptyWindow).status} :
                results' = [tremor_detected |-> t, dyskinesia_detected |-> d,
                            freezing_detected |-> g.fog_state > 0,
                            freezing_confidence |->
                              IF g.fog_state > 0 THEN 100 ELSE 0]
         /\ Emit(WindowOf(accel, BUFFER_SIZE), accepted)
         /\ UNCHANGED accepted

\* if (buffer_is_full()) { detect_symptoms(); transmit_results(); }
MainAuto ==
  /\ variant = "main"
  /\ pc = "auto"
  /\ IF buffer_is_full
       THEN detect_symptoms
       ELSE UNCHANGED <<results, bookVars>>
  /\ pc' = "button"
  /\ UNCHANGED <<classifierVars, variant, bestVars, isrVars, analysisVars, testVars, dcVars, loopVars, sensorsVars, index,
                 accel, button_pressed>>

\* mutant of MainButton: the manual trigger does not run the detection
MainButton_NoManual ==
  /\ variant = "main"
  /\ pc = "button"
  /\ button_pressed' = FALSE
  /\ pc' = "sleep"
  /\ UNCHANGED <<classifierVars, variant, bestVars, isrVars, analysisVars, testVars, dcVars, loopVars, sensorsVars, index,
                 accel, results, bookVars>>

\* if (button_pressed) { button_pressed = false; manual detection }
MainButton ==
  /\ variant = "main"
  /\ pc = "button"
  /\ IF button_pressed
       THEN /\ button_pressed' = FALSE
            /\ IF buffer_is_full
                 THEN detect_symptoms
                 ELSE UNCHANGED <<results, bookVars>>
       ELSE UNCHANGED <<button_pressed, results, bookVars>>
  /\ pc' = "sleep"
  /\ UNCHANGED <<classifierVars, variant, bestVars, isrVars, analysisVars, testVars, dcVars, loopVars, sensorsVars, index,
                 accel>>

\* sample_count++; ThisThread::sleep_for(SAMPLE_PERIOD_MS)
MainSleep ==
  /\ variant = "main"
  /\ pc = "sleep"
  /\ pc' = "collect"
  /\ UNCHANGED <<classifierVars, variant, bestVars, isrVars, analysisVars, testVars, dcVars, loopVars, sensorsVars, index,
                 accel, button_pressed, results, bookVars>>

\* ---- the three programs side by side ----

InitAcq ==
  /\ variant \in {"main_last", "sensors", "main"}
  /\ ClassifierInit
  /\ LoopInit
  /\ SensorsInit
  /\ MainInit
  /\ BookInit
  /\ TestInit
  /\ AnalysisInit
  /\ BestInit
  /\ IsrInit
  /\ DcIdle

NextAcq ==
  \/ Tick
  \/ LoopSample
  \/ LoopShortRead
  \/ LoopProcess
  \/ SampleIsr
  \/ SensorsGetWindow
  \/ SensorsStart
  \/ sensors_init
  \/ OnButtonPress
  \/ MainCollect
  \/ MainAuto
  \/ MainButton
  \/ MainSleep

SpecAcq == InitAcq /\ [][NextAcq]_vars


(***************************************************************************)
(* Properties of the window assembly                                       *)
(***************************************************************************)

\* C13: whenever sensors_get_window has returned true, the caller's window
\* has length N and its data[0..N-1] are the N samples stored last, oldest
\* first: data[i] is the sample number accepted - N + 1 + i.
C13_WindowContents ==
  (variant = "sensors" /\ ret = "true") =>
    /\ window.length = WINDOW_SAMPLES
    /\ accepted >= WINDOW_SAMPLES
    /\ \A i \in 0..(WINDOW_SAMPLES - 1) :
         window.data[i] = accepted - WINDOW_SAMPLES + 1 + i
    /\ last_window = window

\* a window returned after the ring has wrapped and head stands mid-buffer
C13_Witness ==
  /\ variant = "sensors"
  /\ ret = "true"
  /\ accepted = 2 * WINDOW_SAMPLES + 5
  /\ head = 5
  /\ window.data[0] = WINDOW_SAMPLES + 6

\* C12: a step hands a window to analysis only if at least N samples have
\* been stored since start and, in main_last.cpp and sensors.cpp, at least
\* one sample has been stored since the previous window; while fewer than N
\* samples are stored the classifier has not run and no call has returned
\* true.  So without a new sample there is no new window.
C12_Step ==
  /\ emitCount' > emitCount =>
       /\ accepted' >= WINDOW_SAMPLES
       /\ variant \in {"main_last", "sensors"} => accepted' > lastEmitAt
  /\ accepted' < WINDOW_SAMPLES =>
       /\ emitCount' = 0
       /\ status' = <<>>
       /\ ret' # "true"
       /\ ~isFrozenState' /\ ~wasWalking'

C12_NoEarlyWindow == [][C12_Step]_vars

\* sensors_get_window has stored the (N-1)-th sample and returned false
C12_Witness ==
  /\ variant = "sensors"
  /\ accepted = WINDOW_SAMPLES - 1
  /\ ~sample_flag
  /\ ret = "false"
  /\ emitCount = 0

\* the samples of a window, as a set
SamplesOf(w) == {w[i] : i \in 1..Len(w)}

\* the window made of the n-th sample and the N - 1 before it
LastN(n) == [i \in 1..WINDOW_SAMPLES |-> n - WINDOW_SAMPLES + i]

C11_Amended_Step ==
  /\ variant \in {"main_last", "main"} =>
       /\ emitCount' > emitCount =>
            /\ accepted' > 0
            /\ accepted' % WINDOW_SAMPLES = 0
            /\ lastEmitAt' = accepted'
            /\ lastWindow' = LastN(accepted')
            /\ (emitCount > 0 /\ lastEmitAt # accepted') =>
                 SamplesOf(lastWindow') \cap SamplesOf(lastWindow) = {}
       /\ (accepted' > accepted /\ accepted > 0
             /\ accepted % WINDOW_SAMPLES = 0) =>
            lastEmitAt = accepted
  /\ variant = "sensors" =>
       /\ accepted' > accepted =>
            (emitCount' > emitCount <=> accepted' >= WINDOW_SAMPLES)
       /\ emitCount' > emitCount =>
            /\ accepted' = accepted + 1
            /\ lastEmitAt' = accepted'
            /\ lastWindow' = LastN(accepted')
            /\ emitCount > 0 =>
                 Cardinality(SamplesOf(lastWindow') \cap SamplesOf(lastWindow))
                   = WINDOW_SAMPLES - 1

Completed == accepted \div WINDOW_SAMPLES

\* C14 as stated: in main_last.cpp and main.cpp the analysis has never run
\* more often than windows were completed.
C14_Original ==
  variant \in {"main_last", "main"} => emitCount <= Completed

\* C14, amended: in main_last.cpp processSignal runs once per completed
\* window.  In main.cpp detect_symptoms runs once in the loop iteration that
\* completes a window and once more in that iteration exactly if a button
\* press is pending when the button test is reached; between two samples it
\* runs at most twice, and a press with the buffer not full runs nothing.
\* Every completed window is analysed before the next sample is stored.
C14_Amended_Step ==
  /\ variant = "main_last" =>
       /\ emitCount' <= accepted' \div WINDOW_SAMPLES
       /\ accepted' > accepted => emitCount = Completed
  /\ variant = "main" =>
       /\ (pc = "auto" /\ pc' = "button") =>
            emitCount' = emitCount + (IF index = 0 THEN 1 ELSE 0)
       /\ (pc = "button" /\ pc' = "sleep") =>
            emitCount' =
              emitCount + (IF button_pressed /\ index = 0 THEN 1 ELSE 0)
       /\ pc' = pc => emitCount' = emitCount
       /\ emitCount' > emitCount =>
            /\ lastEmitAt' = accepted'
            /\ lastWindow' = LastN(accepted')
            /\ prevEmitAt # accepted'
       /\ accepted' > accepted =>
            /\ Completed <= emitCount
            /\ emitCount <= 2 * Completed
            /\ (accepted > 0 /\ index = 0) => lastEmitAt = accepted

C14_OncePerWindow == [][C14_Amended_Step]_vars

\* main.cpp: the first window has been analysed twice, the button having
\* been pressed before the button test of the completing iteration
C14_Witness ==
  /\ variant = "main"
  /\ pc = "sleep"
  /\ accepted = BUFFER_SIZE
  /\ emitCount = 2
  /\ prevEmitAt = BUFFER_SIZE
  /\ lastEmitAt = BUFFER_SIZE
  /\ ~button_pressed

(***************************************************************************)
(* Step 1 of processSignal, the DC removal, run side by side on a window   *)
(* and on the same window with a constant added to every sample.  Samples  *)
(* are integers; after the removal an entry holds REAL_SAMPLES times the   *)
(* firmware's value, so that the division by REAL_SAMPLES is exact.        *)
(***************************************************************************)

\* mutant of DCRemoval: the mean is taken over all SAMPLES entries
DCRemoval_MeanOverAll(v) ==
  LET total == SumRange(v, 0, SAMPLES - 1)
  IN [i \in 0..(SAMPLES - 1) |->
        IF i < REAL_SAMPLES THEN SAMPLES * v[i] - total ELSE 0]

\* mutant of DCRemoval: the mean is subtracted from the padding too
DCRemoval_PadMinusMean(v) ==
  LET total == SumRange(v, 0, REAL_SAMPLES - 1)
  IN [i \in 0..(SAMPLES - 1) |-> REAL_SAMPLES * v[i] - total]

\* meanVal = (v[0] + ... + v[REAL_SAMPLES-1]) / REAL_SAMPLES; the first
\* REAL_SAMPLES entries minus meanVal, the rest 0 (all times REAL_SAMPLES)
DCRemoval(v) ==
  LET total == SumRange(v, 0, REAL_SAMPLES - 1)
  IN [i \in 0..(SAMPLES - 1) |->
        IF i < REAL_SAMPLES THEN REAL_SAMPLES * v[i] - total ELSE 0]

\* the windows: a level, a sawtooth of some period and slope on top of it,
\* and whatever the entries past the window hold
DCWindows ==
  {[i \in 0..(SAMPLES - 1) |->
      IF i < REAL_SAMPLES THEN a + b * (i % p) ELSE g] :
     a \in 0..MaxLevel, b \in 0..MaxSlope, p \in {2, 3, 7}, g \in {0, MaxLevel}}

DCOffsets == (0 - MaxOffset)..MaxOffset

\* the window with c added to every sample
Shifted(v, c) ==
  [i \in 0..(SAMPLES - 1) |-> IF i < REAL_SAMPLES THEN v[i] + c ELSE v[i]]

InitDC ==
  /\ variant = "dc"
  /\ ClassifierInit
  /\ sampleIndex = REAL_SAMPLES
  /\ due = TRUE
  /\ lastRead = "ok"
  /\ vReal \in DCWindows
  /\ dcOffset \in DCOffsets
  /\ vRealShifted = Shifted(vReal, dcOffset)
  /\ dcStage = "raw"
  /\ SensorsInit
  /\ MainInit
  /\ BookInit
  /\ TestInit
  /\ AnalysisInit
  /\ BestInit
  /\ IsrInit

\* step 1 of processSignal on both windows
RemoveDC ==
  /\ variant = "dc"
  /\ dcStage = "raw"
  /\ vReal' = DCRemoval(vReal)
  /\ vRealShifted' = DCRemoval(vRealShifted)
  /\ dcStage' = "removed"
  /\ UNCHANGED <<classifierVars, variant, bestVars, isrVars, analysisVars, testVars, sampleIndex, due, lastRead,
                 sensorsVars, mainVars, bookVars, dcOffset>>

NextDC == RemoveDC

SpecDC == InitDC /\ [][NextDC]_vars

\* C17: after the DC removal the window and the window with c added to
\* every sample are the same sequence.
C17_OffsetInvariance ==
  dcStage = "removed" => vRealShifted = vReal

\* a window that is not constant, shifted by a nonzero c, after the removal
C17_Witness ==
  /\ dcStage = "removed"
  /\ dcOffset # 0
  /\ vReal[0] # vReal[1]
  /\ vReal[0] # 0

(***************************************************************************)
(* Further properties of the classifier                                    *)
(***************************************************************************)

\* C24: a window that starts with isFrozenState and wasWalking both false
\* and whose locomotor energy does not exceed WALK_THRESHOLD ends with
\* fogVal = 0 and the lock not engaged, whatever the other three energies.
C24_Step ==
  (~isFrozenState /\ ~wasWalking /\ energyLocomotor' <= WALK_THRESHOLD) =>
    /\ fogVal' = 0
    /\ ~isFrozenState'

C24_StationaryNoFog == [][C24_Step]_vars

\* a still window with freeze-band energy above ACTION_THRESHOLD and above
\* the locomotor energy that was classified idle: neither flag was set
C24_Witness ==
  /\ status = <<"Status: Idle (Still)">>
  /\ energyLocomotor <= WALK_THRESHOLD
  /\ energyFreeze > ACTION_THRESHOLD
  /\ energyFreeze > energyLocomotor
  /\ fogVal = 0
  /\ ~isFrozenState

\* C29: after every window isFrozenState holds exactly if the window set
\* fogVal, and isFrozenState and wasWalking do not both hold.
C29_Step ==
  /\ isFrozenState' <=> fogVal' = 1
  /\ ~(isFrozenState' /\ wasWalking')

C29_LockIsFog == [][C29_Step]_vars

\* a freeze kept by the maintenance rule
C29_Witness ==
  /\ status = <<"EVENT: FOG (Continuing...)">>
  /\ isFrozenState
  /\ fogVal = 1
  /\ ~wasWalking

\* C30: after every window wasWalking holds exactly if the window was
\* classified by the walking rule (priority 5); idle, tremor, dyskinesia,
\* FOG start, FOG continuation and the release to tremor leave it false.
C30_Step ==
  wasWalking' <=> RuleOfStatus(LastStatus') = "5"

C30_WalkingOneWindow == [][C30_Step]_vars

\* the walking memory set by a window that also ended a freeze
C30_Witness ==
  /\ status = <<"Status: FOG Ended (Idle).", "Status: Walking...">>
  /\ wasWalking
  /\ ~isFrozenState

(***************************************************************************)
(* Step 3 of processSignal on its own: vReal holds the magnitudes of step  *)
(* 2, a peak at one bin on a flat floor, and the four band energies are    *)
(* integrated from it.                                                     *)
(***************************************************************************)

\* the magnitude spectra: a peak of height a at bin k over a floor b
PeakSpectra ==
  {[i \in 0..(SAMPLES - 1) |-> IF i = k THEN a + b ELSE b] :
     k \in 0..(SAMPLES \div 2), a \in 1..MaxPeak, b \in {0, 1}}

InitBands ==
  /\ variant = "bands"
  /\ ClassifierInit
  /\ sampleIndex = REAL_SAMPLES
  /\ due = TRUE
  /\ lastRead = "ok"
  /\ vReal \in PeakSpectra
  /\ dcOffset = 0
  /\ vRealShifted = [i \in 0..(SAMPLES - 1) |-> 0]
  /\ dcStage = "magnitudes"
  /\ SensorsInit
  /\ MainInit
  /\ BookInit
  /\ TestInit
  /\ AnalysisInit
  /\ BestInit
  /\ IsrInit

\* the energy integration loop
IntegrateBands ==
  /\ variant = "bands"
  /\ dcStage = "magnitudes"
  /\ \E e \in {BandEnergies(vReal)} :
       /\ energyLocomotor' = e.loc
       /\ energyTremor' = e.tremor
       /\ energyDyskinesia' = e.dysk
       /\ energyFreeze' = e.freeze
  /\ dcStage' = "integrated"
  /\ UNCHANGED <<isFrozenState, wasWalking, tremorVal, dyskinesiaVal, fogVal,
                 status, divisors, variant, bestVars, isrVars, analysisVars, testVars, loopVars, sensorsVars, mainVars,
                 bookVars, dcOffset, vRealShifted>>

NextBands == IntegrateBands

SpecBands == InitBands /\ [][NextBands]_vars

\* bin k lies in [lo, hi] (mHz) by its exact centre frequency k * Fs / N_fft
ExactInBand(k, lo, hi) ==
  /\ k >= 2
  /\ k <= SAMPLES \div 2
  /\ k * SAMPLING_FREQ * 1000 >= lo * SAMPLES
  /\ k * SAMPLING_FREQ * 1000 <= hi * SAMPLES

\* the magnitudes of the bins that lie in [lo, hi] by ExactInBand, summed
ExactBandSum(v, lo, hi) ==
  SumRange([k \in 0..(SAMPLES \div 2) |->
              IF ExactInBand(k, lo, hi) THEN v[k] ELSE 0],
           0, SAMPLES \div 2)

\* C21: each band energy is the sum of the magnitudes of exactly the bins
\* k in 2..N_fft/2 whose centre frequency k * 52 / 256 lies in the band's
\* closed interval; in particular bins 0 and 1 add to no band.
C21_BandBins ==
  dcStage = "integrated" =>
    /\ energyLocomotor = ExactBandSum(vReal, 500, 3000)
    /\ energyTremor = ExactBandSum(vReal, 3000, 5000)
    /\ energyDyskinesia = ExactBandSum(vReal, 5000, 7000)
    /\ energyFreeze = ExactBandSum(vReal, 3000, 8000)
    /\ (vReal[0] > vReal[2] \/ vReal[1] > vReal[2]) =>
         /\ energyLocomotor = 12 * vReal[2]
         /\ energyFreeze = 25 * vReal[2]

\* a peak at bin 15, the first bin above 3 Hz: it counts for the tremor and
\* freeze bands and not for the locomotor band
C21_Witness ==
  /\ dcStage = "integrated"
  /\ vReal[15] = MaxPeak
  /\ vReal[14] = 0
  /\ energyTremor = MaxPeak
  /\ energyFreeze = MaxPeak
  /\ energyLocomotor = 0
  /\ energyDyskinesia = 0

\* C22: the DC removal leaves the N real samples with their own mean
\* subtracted (their differences are kept and their sum becomes zero; the
\* entries are N times the firmware's) and every entry N..N_fft-1
\* exactly 0, whatever these entries and the mean were before.
C22_Step ==
  (dcStage = "raw" /\ dcStage' = "removed") =>
    /\ SumRange(vReal', 0, REAL_SAMPLES - 1) = 0
    /\ \A i \in 0..(REAL_SAMPLES - 1) :
         vReal'[i] - vReal'[0] = REAL_SAMPLES * (vReal[i] - vReal[0])
    /\ \A i \in REAL_SAMPLES..(SAMPLES - 1) : vReal'[i] = 0

C22_MeanRemovedZeroPadded == [][C22_Step]_vars

\* a window with a nonzero mean after the removal: the first sample lies
\* below the mean, the padding is zero
C22_Witness ==
  /\ dcStage = "removed"
  /\ vReal[0] < 0
  /\ vReal[1] > 0
  /\ vReal[REAL_SAMPLES] = 0
  /\ vReal[SAMPLES - 1] = 0

(***************************************************************************)
(* test_algo.cpp: the detection logic of run_algorithm next to the         *)
(* firmware's state machine, both on the same band energies, the firmware  *)
(* in its initial state.                                                   *)
(***************************************************************************)

\* the three independent ifs of run_algorithm; the quotient is formed only
\* with energyLocomotor > WALKING_THRESHOLD > 0
RunAlgorithm(e) ==
  [tremor |-> IF e.tremor > NOISE_THRESHOLD /\ e.tremor > e.dysk
              THEN 1 ELSE 0,
   dyskinesia |-> IF e.dysk > NOISE_THRESHOLD /\ e.dysk > e.tremor
                  THEN 1 ELSE 0,
   fog |-> IF e.loc > WALKING_THRESHOLD
              /\ e.freeze > FOG_INDEX_THRESHOLD * e.loc
           THEN 1 ELSE 0]

InitMirror ==
  /\ variant = "test"
  /\ isFrozenState = FALSE
  /\ wasWalking = FALSE
  /\ tremorVal = 0
  /\ dyskinesiaVal = 0
  /\ fogVal = 0
  /\ \E e \in WindowEnergies :
       /\ energyLocomotor = e.loc
       /\ energyTremor = e.tremor
       /\ energyDyskinesia = e.dysk
       /\ energyFreeze = e.freeze
  /\ status = <<>>
  /\ divisors = {}
  /\ LoopInit
  /\ SensorsInit
  /\ MainInit
  /\ BookInit
  /\ TestInit
  /\ AnalysisInit
  /\ BestInit
  /\ IsrInit
  /\ dcOffset = 0
  /\ vRealShifted = [i \in 0..(SAMPLES - 1) |-> 0]
  /\ dcStage = "integrated"

\* the detection logic of run_algorithm and the state machine of
\* processSignal on the integrated energies
ClassifyBoth ==
  /\ variant = "test"
  /\ dcStage = "integrated"
  /\ Classification({Energies})
  /\ res' = RunAlgorithm(Energies)
  /\ dcStage' = "classified"
  /\ UNCHANGED <<variant, bestVars, isrVars, analysisVars, loopVars, sensorsVars, mainVars, bookVars,
                 dcOffset, vRealShifted>>

NextMirror == ClassifyBoth

SpecMirror == InitMirror /\ [][NextMirror]_vars

\* C23: on every vector of band energies run_algorithm reports tremor,
\* dyskinesia and FOG exactly when the firmware, started in its initial
\* state, emits a nonzero tremor intensity, a nonzero dyskinesia intensity
\* and fog_active.
C23_MirrorEquivalence ==
  dcStage = "classified" =>
    /\ res.tremor = 1 <=> tremorVal > 0
    /\ res.dyskinesia = 1 <=> dyskinesiaVal > 0
    /\ res.fog = 1 <=> fogVal = 1

(***************************************************************************)
(* Further properties of sensors.cpp                                       *)
(***************************************************************************)

\* C25: in sensors.cpp head is always the number of samples pushed since
\* the last sensors_start modulo N and filled says that at least N were
\* pushed; a call of sensors_get_window that pushes a sample advances head
\* by one modulo N and keeps filled once it is set; filled is cleared, and
\* head set back other than by wrapping, only by sensors_start.
C25_Step ==
  variant = "sensors" =>
    /\ head' = accepted' % WINDOW_SAMPLES
    /\ filled' <=> accepted' >= WINDOW_SAMPLES
    /\ accepted' = accepted + 1 =>
         /\ head' = (head + 1) % WINDOW_SAMPLES
         /\ filled => filled'
    /\ (filled /\ ~filled') =>
         /\ accepted' = 0
         /\ head' = 0
         /\ ret' = "none"
    /\ (head' < head /\ head # WINDOW_SAMPLES - 1) => accepted' = 0

C25_ResetOnlyByStart == [][C25_Step]_vars

\* the ring has wrapped twice and filled still holds
C25_Witness ==
  /\ variant = "sensors"
  /\ filled
  /\ accepted = 2 * WINDOW_SAMPLES + 3
  /\ head = 3
  /\ ret = "true"

\* C26: a sample whose IMU read met a bus error does not reach the buffer:
\* the call that meets the error switches to synthetic mode and stores the
\* synthetic sample, and so does every later call.
C26_Step ==
  variant = "sensors" =>
    /\ lastSource' # "failed_read"
    /\ (use_synthetic /\ accepted' = accepted + 1) =>
         (use_synthetic' /\ lastSource' = "synthetic")

C26_FailedReadMasked == [][C26_Step]_vars

(***************************************************************************)
(* gait.cpp, dsp.cpp and analyze_frequency_band of main.cpp on one window. *)
(* Samples are in thousandths of g, so rms < c is sum2 < c * c * length.   *)
(* The two transforms (band_power_dft, fft_complex) are not computed:      *)
(* their band sums are drawn from small sets.                              *)
(***************************************************************************)

\* static_cast<uint8_t>(sqrt(rel) * 80 + 0.5), rel = band / total
CompressedLevel(band, total) ==
  CHOOSE n \in 0..80 :
    /\ n = 0 \/ (2 * n - 1) * (2 * n - 1) * total <= 25600 * band
    /\ 25600 * band < (2 * n + 1) * (2 * n + 1) * total

\* scale_to_100: 0 unless max_value > 0, else value / max_value clamped to
\* 0..1 as a rounded percentage
ScaleTo100(value, max_value) ==
  IF max_value <= 0
  THEN [level |-> 0, denominators |-> {}]
  ELSE [level |-> IF value > max_value THEN 100
                  ELSE (200 * value + max_value) \div (2 * max_value),
        denominators |-> {max_value}]

\* mutant of DspAnalyze: no test of total_power against MIN_TOTAL_POWER
DspAnalyze_NoPowerGuard(len, pw) ==
  IF len = 0
  THEN [result |-> [tremor_level |-> 0, dyskinesia_level |-> 0],
        denominators |-> {}]
  ELSE [result |-> [tremor_level |-> 0, dyskinesia_level |-> 0],
        denominators |-> {len, len * len, pw.total}]

\* dsp_analyze_window on a window of length len whose three band_power_dft
\* calls return pw; band_power_dft divides by N (df) and by N * N
DspAnalyze(len, pw) ==
  IF len = 0
  THEN [result |-> [tremor_level |-> 0, dyskinesia_level |-> 0],
        denominators |-> {}]
  ELSE IF pw.total < MIN_TOTAL_POWER
  THEN [result |-> [tremor_level |-> 0, dyskinesia_level |-> 0],
        denominators |-> {len, len * len}]
  ELSE [result |->
          [tremor_level |-> IF 10 * pw.tremor > 3 * pw.total
                            THEN CompressedLevel(pw.tremor, pw.total)
                            ELSE 0,
           dyskinesia_level |-> IF 10 * pw.dysk > 3 * pw.total
                                THEN ScaleTo100(pw.dysk, pw.total).level
                                ELSE 0],
        denominators |->
          {len, len * len, pw.total}
            \cup (IF 10 * pw.dysk > 3 * pw.total
                  THEN ScaleTo100(pw.dysk, pw.total).denominators
                  ELSE {})]

\* the end of analyze_frequency_band: 0 if total_energy == 0, else
\* band_energy / total_energy * 100 (its integer part); before that the
\* function divides by BUFFER_SIZE - 1 and SAMPLE_RATE
AnalyzeBand(band, total) ==
  IF total = 0
  THEN [percent |-> 0, denominators |-> {BUFFER_SIZE - 1, SAMPLING_FREQ}]
  ELSE [percent |-> (100 * band) \div total,
        denominators |-> {BUFFER_SIZE - 1, SAMPLING_FREQ, total}]

\* the windows: empty, or a resting level lo with m single-sample pulses of
\* height hi, every other sample from the start
GaitWindows ==
  {[data |-> [i \in 0..(WINDOW_SAMPLES - 1) |-> 0], length |-> 0]}
  \cup
  {[data |-> [i \in 0..(WINDOW_SAMPLES - 1) |->
                IF i % 2 = 1 /\ i \div 2 < m THEN hi ELSE lo],
    length |-> WINDOW_SAMPLES] :
     m \in 0..MaxSteps, lo \in {0, 40, 55, 100}, hi \in {STEP_THR, 1000}}

\* what band_power_dft can return for the three bands
BandPowers ==
  {[total |-> t, tremor |-> a, dysk |-> b] :
     t \in {0, MIN_TOTAL_POWER - 1, MIN_TOTAL_POWER, MaxPower},
     a \in {0, 2, MaxPower}, b \in {0, 2, MaxPower}}

InitAnalysis ==
  /\ variant = "analysis"
  /\ ClassifierInit
  /\ LoopInit
  /\ sample_flag = FALSE
  /\ head = 0
  /\ filled = TRUE
  /\ buffer = [i \in 0..(WINDOW_SAMPLES - 1) |-> 0]
  /\ window \in GaitWindows
  /\ last_window = window
  /\ ret = "true"
  /\ use_synthetic = FALSE
  /\ lastSource = "imu"
  /\ MainInit
  /\ BookInit
  /\ TestInit
  /\ AnalysisInit
  /\ BestInit
  /\ IsrInit
  /\ DcIdle

\* gait_update(window)
GaitUpdate ==
  /\ variant = "analysis"
  /\ called' = "gait_update"
  /\ \E g \in {GaitUpdateOn(window)} :
       /\ gait_status' = g.status
       /\ denominators' = g.denominators
  /\ powers' = [total |-> 0, tremor |-> 0, dysk |-> 0]
  /\ UNCHANGED <<classifierVars, variant, bestVars, isrVars, loopVars, sensorsVars, mainVars,
                 bookVars, dcVars, testVars, movement, band_percent>>

\* dsp_analyze_window(window)
DspAnalyzeWindow ==
  /\ variant = "analysis"
  /\ called' = "dsp_analyze_window"
  /\ \E pw \in BandPowers :
       /\ pw.tremor <= pw.total
       /\ pw.dysk <= pw.total
       /\ \E a \in {DspAnalyze(window.length, pw)} :
            /\ movement' = a.result
            /\ denominators' = a.denominators
       /\ powers' = pw
  /\ UNCHANGED <<classifierVars, variant, bestVars, isrVars, loopVars, sensorsVars, mainVars,
                 bookVars, dcVars, testVars, gait_status, band_percent>>

\* analyze_frequency_band on one axis of the sample buffer
AnalyzeFrequencyBand ==
  /\ variant = "analysis"
  /\ called' = "analyze_frequency_band"
  /\ \E total \in {0, 1, MaxPower}, band \in {0, 1, MaxPower} :
       /\ band <= total
       /\ \E a \in {AnalyzeBand(band, total)} :
            /\ band_percent' = a.percent
            /\ denominators' = a.denominators
       /\ powers' = [total |-> total, tremor |-> band, dysk |-> 0]
  /\ UNCHANGED <<classifierVars, variant, bestVars, isrVars, loopVars, sensorsVars, mainVars,
                 bookVars, dcVars, testVars, gait_status, movement>>

NextAnalysis ==
  \/ GaitUpdate
  \/ DspAnalyzeWindow
  \/ AnalyzeFrequencyBand

SpecAnalysis == InitAnalysis /\ [][NextAnalysis]_vars

\* C27: every relative-energy computation is guarded against a zero
\* denominator: dsp_analyze_window returns {0, 0} for an empty window or a
\* total power below MIN_TOTAL_POWER without dividing by the total power,
\* analyze_frequency_band returns 0 when the total energy is 0, and
\* gait_update returns an all-zero status for an empty window.
C27_GuardedDivisions ==
  /\ 0 \notin denominators
  /\ (/\ called = "dsp_analyze_window"
      /\ (window.length = 0 \/ powers.total < MIN_TOTAL_POWER))
       => /\ movement = [tremor_level |-> 0, dyskinesia_level |-> 0]
          /\ powers.total \notin denominators
  /\ (called = "analyze_frequency_band" /\ powers.total = 0)
       => band_percent = 0
  /\ (called = "gait_update" /\ window.length = 0)
       => gait_status = [fog_state |-> 0, step_rate_spm |-> 0,
                         variability |-> 0]

\* dsp_analyze_window has returned early on a non-empty window whose total
\* power (here zero) is below MIN_TOTAL_POWER
C27_Witness ==
  /\ called = "dsp_analyze_window"
  /\ window.length = WINDOW_SAMPLES
  /\ powers = [total |-> 0, tremor |-> 0, dysk |-> 0]
  /\ denominators = {window.length, window.length * window.length}
  /\ movement = [tremor_level |-> 0, dyskinesia_level |-> 0]

\* C28: gait_update reports step_rate_spm = 0 whenever the rms of the window
\* is below RMS_WALK_MIN or the step rate from threshold crossings is below
\* WALK_MIN_SPM (zero detected steps included), and reports fog_state = 1
\* only when the reported step rate lies in WALK_MIN_SPM..WALK_MAX_SPM.
C28_LowRateNotWalking ==
  called = "gait_update" =>
    /\ (RmsBelow(window, RMS_WALK_MIN) \/ StepRate(window) < WALK_MIN_SPM)
         => gait_status.step_rate_spm = 0
    /\ gait_status.fog_state = 1
         => /\ gait_status.step_rate_spm >= WALK_MIN_SPM
            /\ gait_status.step_rate_spm <= WALK_MAX_SPM

\* the part of C28 about fog_state alone
C28_FogOnlyInWalkingBand ==
  (variant = "analysis" /\ gait_status.fog_state = 1) =>
    /\ gait_status.step_rate_spm >= WALK_MIN_SPM
    /\ gait_status.step_rate_spm <= WALK_MAX_SPM

\* a window with no threshold crossing and an rms of 0.1 g is reported at 30
\* steps per minute
C28_ClampedUp ==
  /\ called = "gait_update"
  /\ window.length = WINDOW_SAMPLES
  /\ StepCount(window) = 0
  /\ ~RmsBelow(window, RMS_WALK_MIN)
  /\ gait_status.step_rate_spm = WALK_MIN_SPM

(***************************************************************************)
(* Consequences of the band layout for the classifier                      *)
(***************************************************************************)

\* C31: in any window that starts with isFrozenState true the emitted
\* dyskinesia intensity is 0: the dyskinesia bins are freeze bins, so after
\* the fallthrough (freeze energy at most ACTION_THRESHOLD) the dyskinesia
\* energy cannot exceed ACTION_THRESHOLD, and otherwise the window stays FOG
\* or turns tremor.
C31_Step == isFrozenState => dyskinesiaVal' = 0

C31_FrozenNoDyskinesia == [][C31_Step]_vars

\* a frozen window fell through with dyskinesia as its largest band and no
\* dyskinesia was reported
C31_Witness ==
  /\ FirstStatus = "Status: FOG Ended (Idle)."
  /\ energyDyskinesia > energyTremor
  /\ energyDyskinesia > energyLocomotor
  /\ dyskinesiaVal = 0

\* the bins 2..SAMPLES/2-1 of the integration loop
LoopBins == 2..(SAMPLES \div 2 - 1)

\* C32: no bin is counted in both the locomotor and the tremor band, nor in
\* both the tremor and the dyskinesia band; every tremor or dyskinesia bin is
\* a freeze bin; hence freeze energy >= tremor energy + dyskinesia energy in
\* every window.
C32_BandLayout ==
  /\ \A i \in LoopBins :
       /\ ~(InBand(i, 500, 3000) /\ InBand(i, 3000, 5000))
       /\ ~(InBand(i, 3000, 5000) /\ InBand(i, 5000, 7000))
       /\ InBand(i, 3000, 5000) => InBand(i, 3000, 8000)
       /\ InBand(i, 5000, 7000) => InBand(i, 3000, 8000)
  /\ dcStage = "integrated" =>
       energyFreeze >= energyTremor + energyDyskinesia

\* a peak over a floor of 1 at bin 25, the first dyskinesia bin: tremor and
\* dyskinesia energy both above zero and freeze energy above their sum
C32_Witness ==
  /\ dcStage = "integrated"
  /\ vReal[25] = MaxPeak + 1
  /\ vReal[24] = 1
  /\ energyTremor = 10
  /\ energyDyskinesia = 10 + MaxPeak
  /\ energyFreeze > energyTremor + energyDyskinesia

\* C33: whenever a window emits fog_active (FOG start by either trigger
\* branch, or continuation) its freeze energy exceeds ACTION_THRESHOLD; so a
\* window that ends a freeze episode through the fallthrough never
\* re-triggers FOG in that same window.
C33_FogNeedsFreezeEnergy ==
  /\ fogVal = 1 => energyFreeze > ACTION_THRESHOLD
  /\ FirstStatus = "Status: FOG Ended (Idle)." => fogVal = 0

\* FOG started by the mixed-mode branch (divisors records the quotient)
C33_Witness ==
  /\ LastStatus = "EVENT: FOG (Started!)"
  /\ divisors = {energyLocomotor}
  /\ fogVal = 1
  /\ energyFreeze > ACTION_THRESHOLD

\* energies around the rule threshold, the clamp and the 8-bit range
IntensityProbes ==
  {15001, 15999, 16000, 99999, 100000, 100001, 255999, 256000, 300000,
   25600000}

\* C35: any non-zero tremor or dyskinesia intensity emitted is at least 15,
\* it is exactly 100 for every energy >= 100000, and the conversion to an
\* 8-bit value never wraps.
C35_IntensityFloor ==
  /\ tremorVal > 0 =>
       /\ tremorVal >= 15
       /\ tremorVal = Percent(energyTremor)
       /\ energyTremor >= 100000 => tremorVal = 100
  /\ dyskinesiaVal > 0 =>
       /\ dyskinesiaVal >= 15
       /\ dyskinesiaVal = Percent(energyDyskinesia)
       /\ energyDyskinesia >= 100000 => dyskinesiaVal = 100
  /\ \A x \in IntensityProbes :
       /\ Intensity(x) >= 15
       /\ Intensity(x) = Percent(x)
       /\ x >= 100000 => Intensity(x) = 100

\* a tremor window whose energy lies between the threshold and the clamp is
\* reported with an intensity between 15 and 99
C35_Witness ==
  /\ tremorVal >= 15
  /\ tremorVal < 100
  /\ energyTremor > ACTION_THRESHOLD
  /\ energyDyskinesia < energyTremor

(***************************************************************************)
(* main_best.cpp next to main_last.cpp: every window is classified by both *)
(* from the statics main_last.cpp holds.                                   *)
(***************************************************************************)

\* mutant of ClassifyBest: priority 1 as in main_last.cpp
ClassifyBest_SmartRelease(e, f, ww) == Classify(e, f, ww)

\* processSignal of main_best.cpp, step 4: priority 1 has the maintenance
\* test only; priorities 2 to 5 are the chain of main_last.cpp, statement
\* for statement
ClassifyBest(e, f, ww) ==
  IF f /\ e.freeze > ACTION_THRESHOLD
  THEN Outcome(f, FALSE, 0, 0, 1, <<"EVENT: FOG (Continuing...)">>, {})
  ELSE IF f
  THEN PriorityChain(e, FALSE, ww, <<"Status: FOG Ended.">>)
  ELSE PriorityChain(e, f, ww, <<>>)

InitBest ==
  /\ variant = "best"
  /\ ClassifierInit
  /\ LoopInit
  /\ SensorsInit
  /\ MainInit
  /\ BookInit
  /\ TestInit
  /\ AnalysisInit
  /\ BestInit
  /\ IsrInit
  /\ DcIdle

\* one window through both classifiers
ProcessSignalBoth ==
  /\ variant = "best"
  /\ Classification(WindowEnergies)
  /\ best' = ClassifyBest([loc |-> energyLocomotor',
                           tremor |-> energyTremor',
                           dysk |-> energyDyskinesia',
                           freeze |-> energyFreeze'],
                          isFrozenState, wasWalking)
  /\ UNCHANGED <<variant, isrVars, analysisVars, testVars, dcVars, loopVars,
                 sensorsVars, mainVars, bookVars>>

NextBest == ProcessSignalBoth

SpecBest == InitBest /\ [][NextBest]_vars

\* main_best.cpp and main_last.cpp agree on the result bytes and on the
\* statics after the window
SameVerdict ==
  /\ best.frozen = isFrozenState
  /\ best.walking = wasWalking
  /\ best.tremorVal = tremorVal
  /\ best.dyskinesiaVal = dyskinesiaVal
  /\ best.fogVal = fogVal

\* C34: the two classifiers give the same result and next state for every
\* window that starts with isFrozenState false, and for every window that
\* starts with it true and is not tremor-dominant; for a frozen,
\* tremor-dominant window main_last reports tremor and unlocks while
\* main_best continues FOG.
C34_Step ==
  /\ (~isFrozenState \/ ~TremorDominant(Energies')) => SameVerdict'
  /\ (isFrozenState /\ TremorDominant(Energies')) =>
       /\ tremorVal' > 0
       /\ fogVal' = 0
       /\ ~isFrozenState'
       /\ best'.fogVal = 1
       /\ best'.tremorVal = 0
       /\ best'.frozen

C34_BestVersusLast == [][C34_Step]_vars

\* a frozen, tremor-dominant window: released by main_last, continued by
\* main_best
C34_Witness ==
  /\ variant = "best"
  /\ status = <<"Status: FOG -> Tremor Transition.">>
  /\ best.status = <<"EVENT: FOG (Continuing...)">>

\* C36: in the main.cpp variant freezing is never detected: detect_symptoms
\* passes an empty window to gait_update, so after every detection
\* results.freezing_detected is false and results.freezing_confidence is 0,
\* whatever the samples were.
C36_NoFreezingInMain ==
  variant = "main" =>
    /\ results.freezing_detected = FALSE
    /\ results.freezing_confidence = 0

\* a detection has run on a full buffer and reported a tremor, and a
\* second buffer has been collected since
C36_Witness ==
  /\ variant = "main"
  /\ emitCount >= 1
  /\ accepted > BUFFER_SIZE
  /\ results.tremor_detected
  /\ ~results.freezing_detected

\* the three write positions inside their buffers
C38_Ranges ==
  /\ sampleIndex \in 0..REAL_SAMPLES
  /\ head \in 0..(WINDOW_SAMPLES - 1)
  /\ index \in 0..(BUFFER_SIZE - 1)

\* a sample (never 0 in the model) appears in vReal only at sampleIndex, and
\* sampleIndex is below REAL_SAMPLES then; a read that turns out short
\* changes neither sampleIndex nor vReal
C38_Step ==
  /\ \A i \in 0..(SAMPLES - 1) :
       (vReal'[i] # vReal[i] /\ vReal'[i] # 0) =>
          i = sampleIndex /\ i < REAL_SAMPLES
  /\ (lastRead # "short" /\ lastRead' = "short") =>
       sampleIndex' = sampleIndex /\ vReal' = vReal

\* C38: buffer indices stay in range in every reachable state: sampleIndex
\* of main_last.cpp is in 0..REAL_SAMPLES and a sample is written only at an
\* index below REAL_SAMPLES, a failed sensor read leaves sampleIndex and the
\* buffer unchanged; head of sensors.cpp is in 0..WINDOW_SAMPLES-1;
\* sensor_data.index of main.cpp is in 0..BUFFER_SIZE-1.
C38_IndicesInRange == []C38_Ranges /\ [][C38_Step]_vars

\* main_last.cpp in its second window, one sample short of a full buffer,
\* after a short read
C38_Witness ==
  /\ variant = "main_last"
  /\ emitCount >= 1
  /\ sampleIndex = REAL_SAMPLES - 1
  /\ lastRead = "short"

(***************************************************************************)
(* sensors.cpp with the ticker interrupt arriving between any two          *)
(* statements of sensors_get_window.  The interrupt touches sample_flag    *)
(* only, so the call is cut where it reads and where it writes the flag.   *)
(***************************************************************************)

InitIsr ==
  /\ variant = "sensors_isr"
  /\ ClassifierInit
  /\ LoopInit
  /\ SensorsInit
  /\ MainInit
  /\ BookInit
  /\ TestInit
  /\ AnalysisInit
  /\ BestInit
  /\ IsrInit
  /\ DcIdle

\* sample_isr()
TickerIsr ==
  /\ variant = "sensors_isr"
  /\ accepted < MaxSamples
  /\ ticks - accepted < MaxPending
  /\ sample_flag' = TRUE
  /\ ticks' = ticks + 1
  /\ UNCHANGED <<classifierVars, variant, bestVars, analysisVars, testVars,
                 dcVars, loopVars, head, filled, buffer, last_window, window,
                 ret, use_synthetic, lastSource, mainVars, bookVars, call,
                 pushed>>

\* mutant of GetWindowTest: the call goes on whatever sample_flag is
GetWindowTest_NoTest ==
  /\ variant = "sensors_isr"
  /\ call = "idle"
  /\ accepted < MaxSamples
  /\ pushed' = 0
  /\ call' = "flagged"
  /\ UNCHANGED <<classifierVars, variant, bestVars, analysisVars, testVars,
                 dcVars, loopVars, sensorsVars, mainVars, bookVars, ticks>>

\* the call up to and including if (!sample_flag) return false;
GetWindowTest ==
  /\ variant = "sensors_isr"
  /\ call = "idle"
  /\ pushed' = 0
  /\ IF ~sample_flag
       THEN /\ ret' = "false"
            /\ call' = "idle"
       ELSE /\ ret' = ret
            /\ call' = "flagged"
  /\ UNCHANGED <<classifierVars, variant, bestVars, analysisVars, testVars,
                 dcVars, loopVars, sample_flag, head, filled, buffer,
                 last_window, window, use_synthetic, lastSource, mainVars,
                 bookVars, ticks>>

\* sample_flag = false;
GetWindowClear ==
  /\ variant = "sensors_isr"
  /\ call = "flagged"
  /\ sample_flag' = FALSE
  /\ call' = "cleared"
  /\ UNCHANGED <<classifierVars, variant, bestVars, analysisVars, testVars,
                 dcVars, loopVars, head, filled, buffer, last_window, window,
                 ret, use_synthetic, lastSource, mainVars, bookVars, ticks,
                 pushed>>

\* the rest of the call: the read, the push into the ring, the window
GetWindowPush ==
  /\ variant = "sensors_isr"
  /\ call = "cleared"
  /\ \E busOk \in BOOLEAN :
     \E rd \in {ReadImuAccel(use_synthetic, busOk)} :
     \E b \in {[buffer EXCEPT ![head] = accepted + 1]} :
     \E h \in {IF PushWraps(head) THEN 0 ELSE head + 1} :
     \E f \in {FilledAfterPush(filled, head)} :
       /\ use_synthetic' = rd.use_synthetic
       /\ lastSource' = rd.source
       /\ rd.ok
       /\ buffer' = b
       /\ head' = h
       /\ filled' = f
       /\ accepted' = accepted + 1
       /\ pushed' = pushed + 1
       /\ IF ~f
            THEN /\ ret' = "false"
                 /\ NoEmit
                 /\ UNCHANGED <<last_window, window>>
            ELSE \E w \in {BuildWindow(b, h)} :
                   /\ last_window' = w
                   /\ window' = w
                   /\ ret' = "true"
                   /\ Emit(WindowOf(w.data, w.length), accepted + 1)
  /\ call' = "idle"
  /\ UNCHANGED <<classifierVars, variant, bestVars, analysisVars, testVars,
                 dcVars, loopVars, sample_flag, mainVars, ticks>>

NextIsr ==
  \/ TickerIsr
  \/ GetWindowTest
  \/ GetWindowClear
  \/ GetWindowPush

SpecIsr == InitIsr /\ [][NextIsr]_vars

\* a step pushes at most one sample, and only in a call that found
\* sample_flag set; a call that finds it clear returns false and leaves
\* buffer, head and filled as they were
C37_Step ==
  /\ accepted' <= accepted + 1
  /\ accepted' = accepted + 1 => call = "cleared" /\ pushed = 0
  /\ (call = "idle" /\ call' = "flagged") => sample_flag
  /\ (call = "flagged" /\ call' = "cleared") => ~sample_flag'
  /\ (call = "idle" /\ ~sample_flag /\ ticks' = ticks) =>
       /\ ret' = "false"
       /\ call' = "idle"
       /\ UNCHANGED <<buffer, head, filled, accepted>>

\* C37: under any interleaving of sample_isr with the polling loop each
\* sensors_get_window call pushes at most one sample and only if sample_flag
\* was set, so the samples pushed never outnumber the ticker interrupts; a
\* call that finds sample_flag false returns false and leaves buffer, head
\* and filled unchanged.
C37_PushesWithinTicks ==
  /\ [](accepted <= ticks /\ pushed <= 1)
  /\ [][C37_Step]_vars

\* an interrupt fell between the test and the clearing of sample_flag: after
\* the push a tick is left without a sample and the flag is clear
C37_Witness ==
  /\ variant = "sensors_isr"
  /\ call = "idle"
  /\ pushed = 1
  /\ ~sample_flag
  /\ ticks = accepted + 1
  /\ filled

====
